---- MODULE Spec2Model ----
(***************************************************************************)
(* serverstruct: the OpenAPI operation registry (OpenApiPaths), the        *)
(* operation router (OpenApiRouter), standalone routes (route) and the     *)
(* path converter (toOpenApiPath) of src/src/openapi.ts.                   *)
(*                                                                         *)
(* A path is a JavaScript string, modelled as a sequence of one-character  *)
(* strings, so that startsWith, split, slice and join are computed and     *)
(* not assumed.                                                            *)
(***************************************************************************)
EXTENDS Integers, Sequences, FiniteSets, TLC

(***************************************************************************)
(* Bounds of the model.                                                    *)
(***************************************************************************)
\* longest input string given to the path converter on its own
MaxLen == 4

\* characters of the converter's inputs: the separator, the three markers of
\* the host router's syntax, a plain letter and the OpenAPI braces
Alphabet == {"/", ":", "*", "a", "{", "}"}

RECURSIVE StringsUpTo(_)
StringsUpTo(n) ==
    IF n = 0 THEN {<<>>}
    ELSE LET shorter == StringsUpTo(n - 1)
         IN  shorter \cup {Append(s, c) : s \in {t \in shorter : Len(t) = n - 1}, c \in Alphabet}

PathInputs == StringsUpTo(MaxLen)

(***************************************************************************)
(* String primitives of the host language, as toOpenApiPath uses them.     *)
(***************************************************************************)
\* String.prototype.startsWith(c) for a one-character c
startsWith(s, c) == Len(s) >= 1 /\ s[1] = c

\* String.prototype.slice(1)
slice1(s) == IF Len(s) = 0 THEN <<>> ELSE SubSeq(s, 2, Len(s))

\* String.prototype.split("/"): always at least one (possibly empty) piece
RECURSIVE split(_)
split(s) ==
    IF \A i \in 1..Len(s) : s[i] # "/" THEN <<s>>
    ELSE LET k == CHOOSE i \in 1..Len(s) :
                      s[i] = "/" /\ \A j \in 1..(i - 1) : s[j] # "/"
         IN  <<SubSeq(s, 1, k - 1)>> \o split(SubSeq(s, k + 1, Len(s)))

\* Array.prototype.join("/")
RECURSIVE join(_)
join(segs) ==
    IF Len(segs) = 0 THEN <<>>
    ELSE IF Len(segs) = 1 THEN segs[1]
    ELSE segs[1] \o <<"/">> \o join(Tail(segs))

(***************************************************************************)
(* toOpenApiPath: H3 path syntax to OpenAPI path syntax.                   *)
(***************************************************************************)
ParamLiteral == <<"{", "p", "a", "r", "a", "m", "}">>
PathLiteral == <<"{", "p", "a", "t", "h", "}">>

\* a converter that tests for ':' anywhere in the segment, not at its head
convertSegmentLoose(segment) ==
    IF \E i \in 1..Len(segment) : segment[i] = ":"
    THEN <<"{">> \o slice1(segment) \o <<"}">>
    ELSE IF segment = <<"*">> THEN ParamLiteral
    ELSE IF segment = <<"*", "*">> THEN PathLiteral
    ELSE segment

\* the callback given to map
convertSegment(segment) ==
    IF startsWith(segment, ":") THEN <<"{">> \o slice1(segment) \o <<"}">>
    ELSE IF segment = <<"*">> THEN ParamLiteral
    ELSE IF segment = <<"*", "*">> THEN PathLiteral
    ELSE segment

\* a converter that forgets the leading '/'
toOpenApiPathNoPrefix(route) ==
    LET segs == split(route)
    IN  join([i \in 1..Len(segs) |-> convertSegment(segs[i])])

toOpenApiPath(route) ==
    LET prefixed == IF ~startsWith(route, "/") THEN <<"/">> \o route ELSE route
        segs == split(prefixed)
    IN  join([i \in 1..Len(segs) |-> convertSegment(segs[i])])

(***************************************************************************)
(* OpenApiPaths: the operation registry.  Its document tree maps a path to *)
(* a Path Item, which maps a method to the operation stored for it.        *)
(***************************************************************************)
HTTP_METHODS == <<"get", "post", "put", "delete", "patch">>

HttpMethod == {HTTP_METHODS[i] : i \in 1..Len(HTTP_METHODS)}

\* public paths = {}
EmptyPaths == [k \in {} |-> [m \in {} |-> "none"]]

EmptyItem == [m \in {} |-> "none"]

Undefined == "undefined"

\* this.paths[path]
pathItem(tree, path) == IF path \in DOMAIN tree THEN tree[path] ELSE EmptyItem

\* this.paths[path]?.[method]
lookup(tree, path, method) ==
    IF path \in DOMAIN tree /\ method \in DOMAIN tree[path]
    THEN tree[path][method]
    ELSE Undefined

\* { ...a, ...b }
spread(a, b) ==
    [m \in DOMAIN a \cup DOMAIN b |-> IF m \in DOMAIN b THEN b[m] ELSE a[m]]

\* item[method] = operation
setKey(item, method, operation) ==
    [m \in DOMAIN item \cup {method} |-> IF m = method THEN operation ELSE item[m]]

\* this.paths[path] = value
setPath(tree, path, value) ==
    [k \in DOMAIN tree \cup {path} |-> IF k = path THEN value ELSE tree[k]]

\* the RouterContext bound to one operation
createContext(operation) == [kind |-> "ctx", operation |-> operation]

\* the loop of on() over the methods from index i, filling item
RECURSIVE onLoop(_, _, _, _, _, _)
onLoop(tree, methods, path, operation, item, i) ==
    IF i > Len(methods) THEN item
    ELSE onLoop(tree, methods, path, operation,
                IF lookup(tree, path, methods[i]) = Undefined
                THEN setKey(item, methods[i], operation)
                ELSE item,
                i + 1)

\* history: the (path, method) pairs one on() call names
named(methods, path) == {<<path, methods[i]>> : i \in 1..Len(methods)}

\* an on() that sets every named method, whatever the tree holds
OpenApiPaths_onOverwrite(tree, methods, path, operation) ==
    [paths |-> setPath(tree, path,
                       spread(pathItem(tree, path),
                              [m \in {methods[i] : i \in 1..Len(methods)} |-> operation])),
     ctx |-> createContext(operation),
     named |-> named(methods, path)]

\* an on() that stores the new item in place of the Path Item
OpenApiPaths_onNoSpread(tree, methods, path, operation) ==
    [paths |-> setPath(tree, path, onLoop(tree, methods, path, operation, EmptyItem, 1)),
     ctx |-> createContext(operation),
     named |-> named(methods, path)]

\* an on() that returns the context of the operation the tree holds for the
\* first named method
OpenApiPaths_onStoredContext(tree, methods, path, operation) ==
    LET item == onLoop(tree, methods, path, operation, EmptyItem, 1)
        after == setPath(tree, path, spread(pathItem(tree, path), item))
    IN  [paths |-> after,
         ctx |-> createContext(IF methods = <<>> THEN operation
                               ELSE lookup(after, path, methods[1])),
         named |-> named(methods, path)]

\* on(methods, path, operation): the new document tree and the returned context
OpenApiPaths_on(tree, methods, path, operation) ==
    LET item == onLoop(tree, methods, path, operation, EmptyItem, 1)
    IN  [paths |-> setPath(tree, path, spread(pathItem(tree, path), item)),
         ctx |-> createContext(operation),
     named |-> named(methods, path)]

OpenApiPaths_get(tree, path, operation) == OpenApiPaths_on(tree, <<"get">>, path, operation)

OpenApiPaths_post(tree, path, operation) == OpenApiPaths_on(tree, <<"post">>, path, operation)

OpenApiPaths_put(tree, path, operation) == OpenApiPaths_on(tree, <<"put">>, path, operation)

OpenApiPaths_delete(tree, path, operation) == OpenApiPaths_on(tree, <<"delete">>, path, operation)

OpenApiPaths_patch(tree, path, operation) == OpenApiPaths_on(tree, <<"patch">>, path, operation)

\* an all() that names the read-only methods alone
OpenApiPaths_allGetOnly(tree, path, operation) == OpenApiPaths_on(tree, <<"get">>, path, operation)

OpenApiPaths_all(tree, path, operation) == OpenApiPaths_on(tree, HTTP_METHODS, path, operation)

(***************************************************************************)
(* OpenApiRouter and route(): what they hand to the registry and to the    *)
(* H3 app.  A mounted route is the argument list of one app.get / app.post *)
(* / ... / app.all / app.on call; the closure (event) => handler(event,    *)
(* ctx) is the pair of its handler and its ctx.                            *)
(***************************************************************************)
\* one call of app.<verb>(path, (event) => handler(event, ctx), opts)
mount(method, path, handler, ctx, opts) ==
    [method |-> method, route |-> path, handler |-> handler, ctx |-> ctx, opts |-> opts]

\* for (const method of methods) app.on(method, path, ..., opts)
mountEach(methods, path, handler, ctx, opts) ==
    [i \in 1..Len(methods) |-> mount(methods[i], path, handler, ctx, opts)]

\* opts?: RouteOptions, absent
NoOpts == [defined |-> FALSE, entries |-> {}]

\* typeof method === "string" ? [method] : method
methodsOf(method) == IF method.type = "string" THEN <<method.value>> ELSE method.value

\* what the caller's setup(box) returns on its n-th invocation for a route
\* definition: a bare handler, or { handler, ...routeOptions }
setup(def, n) ==
    IF def.setup = "function"
    THEN [type |-> "function", handler |-> <<def.id, n>>, rest |-> {}]
    ELSE [type |-> "object", handler |-> <<def.id, n>>, rest |-> {<<"meta", "auth">>}]

\* the factory given to transient(): one resolution of the constructor, the
\* n-th for this definition; the Route it returns, with what its closure holds
routeFactory(def, n) ==
    LET methods == methodsOf(def.method)
        res == setup(def, n)
    IN  [def |-> def.id,
         methods |-> methods,
         path |-> def.path,
         operation |-> def.operation,
         handler |-> res.handler,
         opts |-> [defined |-> TRUE,
                   entries |-> IF res.type = "function" THEN {} ELSE res.rest]]

(***************************************************************************)
(* Inputs.                                                                 *)
(***************************************************************************)
\* registrations (OpenApiPaths, OpenApiRouter and plugin) in one run
MaxCalls == 2

\* resolutions of one route constructor in one run
MaxResolve == 2

\* operation descriptors, by operationId
Operations == {"opA", "opB"}

\* paths given to OpenApiPaths directly: '/a' and 'a'
DirectPaths == {<<"/", "a">>, <<"a">>}

\* paths in the host router's syntax: 'a' and '/:a'
HostPaths == {<<"a">>, <<"/", ":", "a">>}

\* method lists given to on(): two methods, one method twice, none
OnMethodLists == {<<"get", "post">>, <<"put", "put">>, <<>>}

Apps == {"app1", "app2"}

\* createRouter(app1, paths)
Routers == {"router1"}

\* the app each router was made with
RouterApp(self) == "app1"

\* the handler given to a router verb
InlineHandler == <<"inline", 0>>

\* the option sets given to route()
RouteDefs ==
    {[id |-> "rA", method |-> [type |-> "string", value |-> "get"],
      path |-> <<"/", ":", "a">>, operation |-> "opA", setup |-> "function"],
     [id |-> "rB", method |-> [type |-> "array", value |-> <<"get", "post">>],
      path |-> <<"a">>, operation |-> "opB", setup |-> "object"]}

(***************************************************************************)
(* State.                                                                  *)
(***************************************************************************)
VARIABLES
    route,      \* the string given to toOpenApiPath
    result,     \* what toOpenApiPath returned for it
    again,      \* what toOpenApiPath returned for that result
    cpc,        \* position of the converter's caller: "input", "converted", "reconverted"
    paths,      \* OpenApiPaths.paths, the document tree
    mounts,     \* per H3 app, the routes mounted on it, in order
    pc,         \* "idle", or the position inside the call in progress
    call,       \* the call in progress and its arguments
    ret,        \* the value the call in progress returns
    nCalls,     \* registrations started so far
    first,      \* history: per (path, method), the operation of the first registration naming it
    constructors, \* route(options) results: the definitions that have a constructor
    setupCalls, \* per definition, how many times its setup has been invoked
    instances,  \* the Routes that resolutions have produced
    plugins,    \* the H3 plugins that calling a Route with the registry has produced
    event,      \* the H3Event of the request being handled: its req and its res
    options,    \* the options the trace middleware was made with
    mw,         \* per request, the trace middleware's invocation: position and locals
    spans,      \* per request, the span the middleware started for it
    active,     \* per request, the context active in its asynchronous chain
    steps,      \* history: per request, what the middleware has done, in order
    map,        \* Context.#map: the value held for each event that has one
    sets        \* history: per event, the value of the latest set call, if any

pathVars == <<route, result, again, cpc>>

regVars == <<paths, mounts, pc, call, ret, nCalls, first>>

routeVars == <<constructors, setupCalls, instances, plugins>>

reqVars == <<event, options, mw, spans, active, steps, map, sets>>

vars == <<route, result, again, cpc, paths, mounts, pc, call, ret, nCalls, first,
          constructors, setupCalls, instances, plugins, event,
          options, mw, spans, active, steps, map, sets>>

NoResult == <<"?">>

NoCall == [kind |-> "none"]

NoRet == [kind |-> "none"]

\* no request is being handled
NoEvent == [kind |-> "none"]

\* the requests that can be in flight through the trace middleware
Requests == {"r1", "r2"}

\* no trace middleware is installed and no request has reached one
NoTrace ==
    /\ options = [kind |-> "none"]
    /\ mw = [r \in Requests |-> [pc |-> "absent"]]
    /\ spans = [r \in Requests |-> [started |-> 0, ended |-> 0]]
    /\ active = [r \in Requests |-> [kind |-> "ambient"]]
    /\ steps = [r \in Requests |-> <<>>]

\* a Context that has just been constructed: new WeakMap()
StoreEvents == {"e1", "e2"}

NoStore ==
    /\ map = [e \in {} |-> ""]
    /\ sets = [e \in StoreEvents |-> [set |-> FALSE]]

RegInit ==
    /\ paths = EmptyPaths
    /\ mounts = [a \in Apps |-> <<>>]
    /\ pc = "idle"
    /\ call = NoCall
    /\ ret = NoRet
    /\ nCalls = 0
    /\ first = [p \in {} |-> "none"]
    /\ constructors = {}
    /\ setupCalls = [d \in {def.id : def \in RouteDefs} |-> 0]
    /\ instances = {}
    /\ plugins = {}

(***************************************************************************)
(* The path converter on its own: every input string up to MaxLen.         *)
(***************************************************************************)
PathInit ==
    /\ route \in PathInputs
    /\ result = NoResult
    /\ again = NoResult
    /\ cpc = "input"
    /\ RegInit
    /\ NoStore
    /\ event = NoEvent
    /\ NoTrace

Convert ==
    /\ cpc = "input"
    /\ result' = toOpenApiPath(route)
    /\ cpc' = "converted"
    /\ UNCHANGED <<route, again>>
    /\ UNCHANGED <<regVars, routeVars, reqVars>>

ConvertAgain ==
    /\ cpc = "converted"
    /\ again' = toOpenApiPath(result)
    /\ cpc' = "reconverted"
    /\ UNCHANGED <<route, result>>
    /\ UNCHANGED <<regVars, routeVars, reqVars>>

PathNext == Convert \/ ConvertAgain

SpecPath == PathInit /\ [][PathNext]_vars

(***************************************************************************)
(* Registration calls.  A call in progress is held in call; nothing else   *)
(* runs until it completes (the configuration phase is synchronous).       *)
(***************************************************************************)
\* history: the operation of the first registration that named each pair
recordFirst(f, pairs, operation) ==
    [p \in DOMAIN f \cup pairs |-> IF p \in DOMAIN f THEN f[p] ELSE operation]

\* the registry call a caller makes first; reg is what it returned
Begin(kind, entry, self, app, methods, path, operation, handler, opts, reg, next) ==
    /\ pc = "idle"
    /\ nCalls < MaxCalls
    /\ nCalls' = nCalls + 1
    /\ paths' = reg.paths
    /\ first' = recordFirst(first, reg.named, operation)
    /\ call' = [kind |-> kind, entry |-> entry, self |-> self, app |-> app,
                methods |-> methods, path |-> path, operation |-> operation,
                handler |-> handler, opts |-> opts, ctx |-> reg.ctx,
                named |-> reg.named]
    /\ pc' = next
    /\ UNCHANGED <<mounts, pathVars, routeVars, reqVars>>

\* a direct call of an OpenApiPaths method: it returns the context
Direct(entry, methods, path, operation, reg) ==
    /\ Begin("paths", entry, "none", "none", methods, path, operation, <<>>, NoOpts, reg, "done")
    /\ ret' = reg.ctx

PathsGet ==
    \E path \in DirectPaths, operation \in Operations :
        Direct("get", <<"get">>, path, operation, OpenApiPaths_get(paths, path, operation))

PathsPost ==
    \E path \in DirectPaths, operation \in Operations :
        Direct("post", <<"post">>, path, operation, OpenApiPaths_post(paths, path, operation))

PathsPut ==
    \E path \in DirectPaths, operation \in Operations :
        Direct("put", <<"put">>, path, operation, OpenApiPaths_put(paths, path, operation))

PathsDelete ==
    \E path \in DirectPaths, operation \in Operations :
        Direct("delete", <<"delete">>, path, operation, OpenApiPaths_delete(paths, path, operation))

PathsPatch ==
    \E path \in DirectPaths, operation \in Operations :
        Direct("patch", <<"patch">>, path, operation, OpenApiPaths_patch(paths, path, operation))

PathsAll ==
    \E path \in DirectPaths, operation \in Operations :
        Direct("all", HTTP_METHODS, path, operation, OpenApiPaths_all(paths, path, operation))

PathsOn ==
    \E methods \in OnMethodLists, path \in DirectPaths, operation \in Operations :
        Direct("on", methods, path, operation, OpenApiPaths_on(paths, methods, path, operation))

(***************************************************************************)
(* OpenApiRouter: each verb method registers, then mounts, then returns.   *)
(***************************************************************************)
\* a router that hands the handler's path to the registry as it is
routerPathRaw(path) == path

\* the path a router verb hands to the registry
routerPath(path) == toOpenApiPath(path)

\* first statement of a verb method: const ctx = this.paths.<verb>(...)
RouterRegister(entry, self, methods, path, operation, opts, reg) ==
    /\ Begin("router", entry, self, RouterApp(self), methods, path, operation,
             InlineHandler, opts, reg, "registered")
    /\ ret' = NoRet

RouterOpts == {NoOpts}

OpenApiRouter_get ==
    \E self \in Routers, path \in HostPaths, operation \in Operations, opts \in RouterOpts :
        RouterRegister("get", self, <<"get">>, path, operation, opts,
                       OpenApiPaths_get(paths, routerPath(path), operation))

OpenApiRouter_post ==
    \E self \in Routers, path \in HostPaths, operation \in Operations, opts \in RouterOpts :
        RouterRegister("post", self, <<"post">>, path, operation, opts,
                       OpenApiPaths_post(paths, routerPath(path), operation))

OpenApiRouter_put ==
    \E self \in Routers, path \in HostPaths, operation \in Operations, opts \in RouterOpts :
        RouterRegister("put", self, <<"put">>, path, operation, opts,
                       OpenApiPaths_put(paths, routerPath(path), operation))

OpenApiRouter_delete ==
    \E self \in Routers, path \in HostPaths, operation \in Operations, opts \in RouterOpts :
        RouterRegister("delete", self, <<"delete">>, path, operation, opts,
                       OpenApiPaths_delete(paths, routerPath(path), operation))

OpenApiRouter_patch ==
    \E self \in Routers, path \in HostPaths, operation \in Operations, opts \in RouterOpts :
        RouterRegister("patch", self, <<"patch">>, path, operation, opts,
                       OpenApiPaths_patch(paths, routerPath(path), operation))

OpenApiRouter_all ==
    \E self \in Routers, path \in HostPaths, operation \in Operations, opts \in RouterOpts :
        RouterRegister("all", self, HTTP_METHODS, path, operation, opts,
                       OpenApiPaths_all(paths, routerPath(path), operation))

OpenApiRouter_on ==
    \E self \in Routers, methods \in OnMethodLists, path \in HostPaths,
       operation \in Operations, opts \in RouterOpts :
        RouterRegister("on", self, methods, path, operation, opts,
                       OpenApiPaths_on(paths, methods, routerPath(path), operation))

\* a router that mounts the handler at the converted path
routerMountsConverted(c) ==
    IF c.entry = "on"
    THEN mountEach(c.methods, toOpenApiPath(c.path), c.handler, c.ctx, c.opts)
    ELSE <<mount(c.entry, toOpenApiPath(c.path), c.handler, c.ctx, c.opts)>>

\* second statement of a verb method: this.app.<verb>(path, (event) =>
\* handler(event, ctx), opts), or the loop of app.on calls of on()
routerMounts(c) ==
    IF c.entry = "on"
    THEN mountEach(c.methods, c.path, c.handler, c.ctx, c.opts)
    ELSE <<mount(c.entry, c.path, c.handler, c.ctx, c.opts)>>

\* last statement of a verb method: return this
routerReturn(c) == [kind |-> "router", id |-> c.self]

RouterMount ==
    /\ pc = "registered"
    /\ call.kind = "router"
    /\ mounts' = [mounts EXCEPT ![call.app] = @ \o routerMounts(call)]
    /\ ret' = routerReturn(call)
    /\ pc' = "done"
    /\ UNCHANGED <<paths, call, nCalls, first, pathVars, routeVars, reqVars>>

(***************************************************************************)
(* route(): the constructor, its resolution, the Route and its plugin.     *)
(***************************************************************************)
\* a route() that runs setup at once, when the options are given
RouteDefineEager ==
    /\ pc = "idle"
    /\ \E def \in RouteDefs :
        /\ def \notin constructors
        /\ constructors' = constructors \cup {def}
        /\ setupCalls' = [setupCalls EXCEPT ![def.id] = @ + 1]
    /\ UNCHANGED <<instances, plugins, regVars, pathVars, reqVars>>

\* route(options): returns transient(factory); nothing runs yet
RouteDefine ==
    /\ pc = "idle"
    /\ \E def \in RouteDefs :
        /\ def \notin constructors
        /\ constructors' = constructors \cup {def}
    /\ UNCHANGED <<setupCalls, instances, plugins, regVars, pathVars, reqVars>>

\* box.get(constructor): transient, so the factory runs on every resolution
Resolve ==
    /\ pc = "idle"
    /\ \E def \in constructors :
        /\ setupCalls[def.id] < MaxResolve
        /\ setupCalls' = [setupCalls EXCEPT ![def.id] = @ + 1]
        /\ instances' = instances \cup {routeFactory(def, setupCalls[def.id] + 1)}
    /\ UNCHANGED <<constructors, plugins, regVars, pathVars, reqVars>>

\* a Route that registers its operation when it is called with the registry
RouteCallEager ==
    /\ pc = "idle"
    /\ \E r \in instances :
        /\ r \notin plugins
        /\ plugins' = plugins \cup {r}
        /\ paths' = OpenApiPaths_on(paths, r.methods, toOpenApiPath(r.path), r.operation).paths
    /\ UNCHANGED <<constructors, setupCalls, instances, mounts, pc, call, ret, nCalls, first,
                   pathVars, reqVars>>

\* Route(paths): definePlugin's result applied to its options returns the
\* plugin; the plugin body has not run
RouteCall ==
    /\ pc = "idle"
    /\ \E r \in instances :
        /\ r \notin plugins
        /\ plugins' = plugins \cup {r}
    /\ UNCHANGED <<constructors, setupCalls, instances, regVars, pathVars, reqVars>>

\* app.register(plugin) runs the plugin body; its first statement:
\* const ctx = paths.on(methods, toOpenApiPath(path), operation)
PluginRegister(plugin, app) ==
    /\ Begin("plugin", "on", "none", app, plugin.methods, plugin.path, plugin.operation,
             plugin.handler, plugin.opts,
             OpenApiPaths_on(paths, plugin.methods, toOpenApiPath(plugin.path), plugin.operation),
             "registered")
    /\ ret' = NoRet

\* a plugin body that drops the route options
pluginMountsNoOpts(c) == mountEach(c.methods, c.path, c.handler, c.ctx, NoOpts)

\* the loop of the plugin body: app.on(method, path, (event) => handler(event, ctx), opts)
pluginMounts(c) == mountEach(c.methods, c.path, c.handler, c.ctx, c.opts)

PluginMount ==
    /\ pc = "registered"
    /\ call.kind = "plugin"
    /\ mounts' = [mounts EXCEPT ![call.app] = @ \o pluginMounts(call)]
    /\ ret' = [kind |-> "undefined"]
    /\ pc' = "done"
    /\ UNCHANGED <<paths, call, nCalls, first, pathVars, routeVars, reqVars>>

\* the plugin of a resolved Route is registered on an app
RegisterPlugin ==
    \E plugin \in {p \in plugins : "routes" \notin DOMAIN p}, app \in Apps :
        PluginRegister(plugin, app)

\* the Routes that one resolution of each definition produces
ResolvedRoutes == {routeFactory(def, 1) : def \in RouteDefs}

\* app.register(someRoute(paths)) as application setup code does it
RegisterRoute == \E plugin \in ResolvedRoutes, app \in Apps : PluginRegister(plugin, app)

\* a request reaches a mounted route: its closure calls handler(event, ctx)
Request ==
    /\ pc = "idle"
    /\ \E app \in Apps : \E i \in 1..Len(mounts[app]) :
        call' = [kind |-> "request", app |-> app, method |-> mounts[app][i].method,
                 path |-> mounts[app][i].route, handler |-> mounts[app][i].handler,
                 ctx |-> mounts[app][i].ctx]
    /\ pc' = "done"
    /\ ret' = [kind |-> "response"]
    /\ UNCHANGED <<paths, mounts, nCalls, first, pathVars, routeVars, reqVars>>

\* the call returns to its caller
Complete ==
    /\ pc = "done"
    /\ pc' = "idle"
    /\ call' = NoCall
    /\ ret' = NoRet
    /\ UNCHANGED <<paths, mounts, nCalls, first, pathVars, routeVars, reqVars>>

Init ==
    /\ route = <<>>
    /\ result = NoResult
    /\ again = NoResult
    /\ cpc = "input"
    /\ RegInit
    /\ NoStore
    /\ event = NoEvent
    /\ NoTrace

Next ==
    \/ PathsGet \/ PathsPost \/ PathsPut \/ PathsDelete \/ PathsPatch
    \/ PathsAll \/ PathsOn
    \/ OpenApiRouter_get \/ OpenApiRouter_post \/ OpenApiRouter_put
    \/ OpenApiRouter_delete \/ OpenApiRouter_patch
    \/ OpenApiRouter_all \/ OpenApiRouter_on
    \/ RouterMount
    \/ RegisterRoute \/ PluginMount
    \/ Complete

Spec == Init /\ [][Next]_vars

RouteNext ==
    \/ RouteDefine \/ Resolve \/ RouteCall
    \/ RegisterPlugin \/ PluginMount
    \/ Request
    \/ Complete

SpecRoute == Init /\ [][RouteNext]_vars

(***************************************************************************)
(* Properties of the path converter.  They speak of '/'-separated pieces   *)
(* by position in the string, independently of split and join above.       *)
(***************************************************************************)
Prefixed(p) == IF Len(p) >= 1 /\ p[1] = "/" THEN p ELSE <<"/">> \o p

SlashCount(s) == Cardinality({i \in 1..Len(s) : s[i] = "/"})

\* the cuts of s: position 0, every '/', and the position after the end
Cuts(s) == {0, Len(s) + 1} \cup {i \in 1..Len(s) : s[i] = "/"}

NthCut(s, n) == CHOOSE x \in Cuts(s) : Cardinality({y \in Cuts(s) : y < x}) = n - 1

\* the n-th piece of s between consecutive cuts, n in 1..SlashCount(s)+1
NthSegment(s, n) == SubSeq(s, NthCut(s, n) + 1, NthCut(s, n + 1) - 1)

\* what the conversion table asks of one piece
ExpectedSegment(seg) ==
    CASE Len(seg) >= 1 /\ seg[1] = ":" -> <<"{">> \o SubSeq(seg, 2, Len(seg)) \o <<"}">>
      [] seg = <<"*">> -> <<"{", "p", "a", "r", "a", "m", "}">>
      [] seg = <<"*", "*">> -> <<"{", "p", "a", "t", "h", "}">>
      [] OTHER -> seg

\* no piece of p uses the host router's syntax
NoHostSyntax(p) ==
    \A n \in 1..(SlashCount(p) + 1) :
        LET seg == NthSegment(p, n)
        IN  /\ ~(Len(seg) >= 1 /\ seg[1] = ":")
            /\ seg # <<"*">>
            /\ seg # <<"*", "*">>

\* C4: toOpenApiPath is total; its result has as many '/'-separated pieces as
\* the input prefixed with '/' when that was missing, and the n-th piece of
\* the result is the n-th piece of the prefixed input mapped by the table
\* (':x' to '{x}', '*' to '{param}', '**' to '{path}', anything else kept).
C4_SegmentwiseConversion ==
    /\ cpc = "input" => toOpenApiPath(route) \in Seq(Alphabet \cup {"p", "r", "m", "t", "h"})
    /\ cpc # "input" =>
          LET pre == Prefixed(route)
          IN  /\ SlashCount(result) = SlashCount(pre)
              /\ \A n \in 1..(SlashCount(pre) + 1) :
                    NthSegment(result, n) = ExpectedSegment(NthSegment(pre, n))

\* C4 witness: the unprefixed input ':a/*' has been converted to
\* '/{a}/{param}'.
C4_Witness ==
    /\ cpc = "converted"
    /\ route = <<":", "a", "/", "*">>
    /\ result = <<"/", "{", "a", "}", "/">> \o ParamLiteral

\* C5 as stated: every path without host-router syntax is returned unchanged,
\* and converting twice is converting once.
C5_Original ==
    /\ (cpc # "input" /\ NoHostSyntax(route)) => result = route
    /\ cpc = "reconverted" => again = result

\* C5 amended: every path that starts with '/' and has no host-router syntax
\* is returned unchanged, and converting twice is converting once for every
\* path.
C5_IdempotentOnSlashedPaths ==
    /\ (cpc # "input" /\ startsWith(route, "/") /\ NoHostSyntax(route)) => result = route
    /\ cpc = "reconverted" => again = result

\* C5 witness: an already-OpenAPI path came back unchanged, twice.
C5_Witness ==
    /\ cpc = "reconverted"
    /\ route = <<"/", "{", "a", "}">>
    /\ result = route
    /\ again = route

(***************************************************************************)
(* Properties of the registry, the router and routes.                      *)
(***************************************************************************)
RegKinds == {"paths", "router", "plugin"}

Range(seq) == {seq[i] : i \in 1..Len(seq)}

\* this step is the registry call of a registration
StartsRegistration == pc = "idle" /\ call'.kind \in RegKinds

\* the first-wins policy, pair by pair: a named method that the Path Item
\* lacks gets the operation, every other entry of the tree stays as it is
Policy(tree, methodSet, path, operation) ==
    [k \in DOMAIN tree \cup {path} |->
        IF k # path THEN tree[k]
        ELSE [m \in DOMAIN pathItem(tree, path) \cup methodSet |->
                 IF m \in DOMAIN pathItem(tree, path) THEN tree[path][m] ELSE operation]]

\* C1: a registration never removes or changes the descriptor stored at a
\* (path, method) pair that the registration does not name, and no other step
\* touches the document tree.
C1_MethodsAccumulate ==
    [][\A k \in DOMAIN paths : \A m \in DOMAIN paths[k] :
          ~(StartsRegistration /\ <<k, m>> \in call'.named)
              => lookup(paths', k, m) = paths[k][m]]_vars

\* C1 witness: POST was registered on '/a' after GET with another operation,
\* and the Path Item holds both.
C1_Witness ==
    /\ pc = "done"
    /\ call.kind = "paths"
    /\ call.entry = "post"
    /\ call.path = <<"/", "a">>
    /\ call.operation = "opB"
    /\ lookup(paths, <<"/", "a">>, "get") = "opA"
    /\ lookup(paths, <<"/", "a">>, "post") = "opB"

\* C2: after any sequence of registrations, the descriptor stored at a (path,
\* method) pair is the operation of the first registration that named the
\* pair, and nothing is stored at a pair no registration named.
C2_FirstRegistrationWins ==
    /\ \A p \in DOMAIN first : lookup(paths, p[1], p[2]) = first[p]
    /\ \A k \in DOMAIN paths : \A m \in DOMAIN paths[k] : <<k, m>> \in DOMAIN first

\* C2 witness: a registration named a pair that already held another
\* operation, and the pair still holds that one.
C2_Witness ==
    /\ pc = "done"
    /\ call.kind \in RegKinds
    /\ \E p \in call.named :
        /\ lookup(paths, p[1], p[2]) # call.operation
        /\ lookup(paths, p[1], p[2]) = first[p]

\* C3: from any tree, get/post/put/delete/patch(path, op) leaves the tree that
\* on([that method], path, op) leaves, and all(path, op) the tree that
\* on([get, post, put, delete, patch], path, op) leaves, which is the
\* first-wins policy applied to the named methods; on a fresh registry all()
\* leaves one Path Item with exactly the five methods, each mapped to op.
C3_EntryPointsAgree ==
    [][(pc = "idle" /\ call'.kind = "paths") =>
          LET c == call'
          IN  /\ c.entry \in HttpMethod =>
                    paths' = OpenApiPaths_on(paths, <<c.entry>>, c.path, c.operation).paths
              /\ c.entry \in HttpMethod =>
                    paths' = Policy(paths, {c.entry}, c.path, c.operation)
              /\ c.entry = "all" =>
                    paths' = OpenApiPaths_on(paths, HTTP_METHODS, c.path, c.operation).paths
              /\ c.entry = "all" =>
                    paths' = Policy(paths, {"get", "post", "put", "delete", "patch"},
                                    c.path, c.operation)
              /\ c.entry = "on" =>
                    paths' = Policy(paths, Range(c.methods), c.path, c.operation)
              /\ (c.entry = "all" /\ paths = EmptyPaths) =>
                    /\ DOMAIN paths' = {c.path}
                    /\ paths'[c.path] =
                         [m \in {"get", "post", "put", "delete", "patch"} |-> c.operation]
              /\ ret' = createContext(c.operation)]_vars

\* C3 witness: all() on a fresh registry has left the five methods.
C3_Witness ==
    /\ pc = "done"
    /\ call.kind = "paths"
    /\ call.entry = "all"
    /\ nCalls = 1
    /\ DOMAIN paths = {call.path}
    /\ DOMAIN paths[call.path] = HttpMethod
    /\ \A m \in HttpMethod : paths[call.path][m] = call.operation

\* C6 as stated: every key of the document tree starts with '/'.
C6_Original == \A k \in DOMAIN paths : startsWith(k, "/")

\* C6 amended: a registration made through OpenApiRouter or a route() plugin
\* names and adds only keys that start with '/'; a registration made through
\* OpenApiPaths directly adds the path exactly as it was given.
C6_RouterKeysStartWithSlash ==
    [][StartsRegistration =>
          /\ call'.kind \in {"router", "plugin"} =>
                /\ \A k \in DOMAIN paths' \ DOMAIN paths : startsWith(k, "/")
                /\ \A p \in call'.named : startsWith(p[1], "/")
          /\ call'.kind = "paths" =>
                DOMAIN paths' = DOMAIN paths \cup {call'.path}]_vars

\* C6 witness: the router was given 'a' and the tree got the key '/a', not 'a'.
C6_Witness ==
    /\ pc = "registered"
    /\ call.kind = "router"
    /\ call.path = <<"a">>
    /\ <<"/", "a">> \in DOMAIN paths
    /\ <<"a">> \notin DOMAIN paths

\* the routes a step has added at the end of an app's list
Added(app) == SubSeq(mounts'[app], Len(mounts[app]) + 1, Len(mounts'[app]))

\* a step that adds routes to one app only, after those it had
MountsOnlyOn(app) ==
    /\ Len(mounts'[app]) >= Len(mounts[app])
    /\ SubSeq(mounts'[app], 1, Len(mounts[app])) = mounts[app]
    /\ \A other \in Apps \ {app} : mounts'[other] = mounts[other]

\* C7: a router verb method first registers the operation at
\* toOpenApiPath(path), mounting nothing yet; then mounts the handler on its
\* app at the original path, with the context that registration returned, one
\* route for the verb (one per listed method for on); and returns the router
\* it was called on.
C7_RouterRegistersThenMounts ==
    [][/\ (pc = "idle" /\ call'.kind = "router") =>
            /\ pc' = "registered"
            /\ mounts' = mounts
            /\ paths' = Policy(paths, Range(call'.methods), toOpenApiPath(call'.path),
                               call'.operation)
            /\ \A m \in Range(call'.methods) :
                   lookup(paths', toOpenApiPath(call'.path), m) # Undefined
            /\ call'.ctx = createContext(call'.operation)
       /\ (pc = "registered" /\ call.kind = "router") =>
            /\ pc' = "done"
            /\ paths' = paths
            /\ MountsOnlyOn(RouterApp(call.self))
            /\ LET new == Added(RouterApp(call.self))
               IN  /\ Len(new) = IF call.entry = "on" THEN Len(call.methods) ELSE 1
                   /\ \A j \in 1..Len(new) :
                        /\ new[j].route = call.path
                        /\ new[j].handler = call.handler
                        /\ new[j].ctx = call.ctx
                        /\ new[j].method =
                             IF call.entry = "on" THEN call.methods[j] ELSE call.entry
            /\ ret' = [kind |-> "router", id |-> call.self]]_vars

\* C7 witness: router.get('/:a', ...) has registered at '/{a}', mounted at
\* '/:a' and returned the router.
C7_Witness ==
    /\ pc = "done"
    /\ call.kind = "router"
    /\ call.entry = "get"
    /\ call.path = <<"/", ":", "a">>
    /\ lookup(paths, <<"/", "{", "a", "}">>, "get") = call.operation
    /\ mounts["app1"] = <<mount("get", <<"/", ":", "a">>, InlineHandler,
                                createContext(call.operation), NoOpts)>>
    /\ ret = [kind |-> "router", id |-> "router1"]

\* the methods a mounted route answers
mountMethods(m) == IF m.method = "all" THEN HttpMethod ELSE {m.method}

\* C8: every mounted route has, for each of its methods (the five standard
\* ones for all), a descriptor in the document tree at the converted form of
\* the path it is mounted on.
C8_MountedImpliesRegistered ==
    \A app \in Apps : \A i \in 1..Len(mounts[app]) :
        \A m \in mountMethods(mounts[app][i]) :
            lookup(paths, toOpenApiPath(mounts[app][i].route), m) # Undefined

\* C8 witness: router.all has mounted a route on app1 and a route plugin has
\* mounted one on app2.
C8_Witness ==
    /\ pc = "done"
    /\ \E i \in 1..Len(mounts["app1"]) :
        /\ mounts["app1"][i].method = "all"
        /\ mounts["app1"][i].route = <<"/", ":", "a">>
    /\ \E i \in 1..Len(mounts["app2"]) : mounts["app2"][i].handler[1] = "rB"

\* the definition a Route came from
DefOf(id) == CHOOSE d \in RouteDefs : d.id = id

\* the declared method set: a single method string is a one-element list
Declared(def) == IF def.method.type = "string" THEN <<def.method.value>> ELSE def.method.value

\* the route options a setup result carries besides the handler
RestOf(res) == IF res.type = "function" THEN {} ELSE res.rest

\* C9: setup is invoked exactly once by each resolution of the constructor and
\* by nothing else: not by route(options), not by calling the Route with the
\* registry, not by registering its plugin on an app, not by a request; each
\* resolution yields one new Route, whose handler is the function setup
\* returned, or the handler of the object it returned, the rest of that
\* object being the route options.
C9_SetupOncePerResolution ==
    [][/\ instances' # instances =>
            /\ \E def \in constructors :
                   setupCalls' = [setupCalls EXCEPT ![def.id] = @ + 1]
            /\ instances \subseteq instances'
            /\ Cardinality(instances') = Cardinality(instances) + 1
            /\ constructors' = constructors
       /\ instances' = instances => setupCalls' = setupCalls
       /\ (constructors' # constructors \/ plugins' # plugins \/ pc' # pc
              \/ mounts' # mounts \/ paths' # paths) => setupCalls' = setupCalls
       /\ \A d \in DOMAIN setupCalls' :
              Cardinality({r \in instances' : r.def = d}) = setupCalls'[d]
       /\ \A r \in instances' :
              LET res == setup(DefOf(r.def), r.handler[2])
              IN  /\ r.handler = res.handler
                  /\ r.opts = [defined |-> TRUE, entries |-> RestOf(res)]]_vars

\* C9 witness: the constructor of rB was resolved twice, the plugin of the
\* second Route was registered, and a request reached its handler; setup has
\* run twice.
C9_Witness ==
    /\ pc = "done"
    /\ call.kind = "request"
    /\ call.handler = <<"rB", 2>>
    /\ setupCalls["rB"] = 2
    /\ Cardinality({r \in instances : r.def = "rB"}) = 2

\* C10: registering the plugin of a Route registers the route's operation by
\* on(declared methods, toOpenApiPath(path), operation), a single method
\* string counting as a one-element list, and then mounts the handler on the
\* target app at the original path once for every declared method, each mount
\* call getting the route options that setup returned.
C10_PluginRegistersAndMounts ==
    [][/\ (pc = "idle" /\ call'.kind = "plugin") =>
            LET def == DefOf(call'.handler[1])
            IN  /\ paths' = OpenApiPaths_on(paths, Declared(def), toOpenApiPath(def.path),
                                            def.operation).paths
                /\ paths' = Policy(paths, Range(Declared(def)), toOpenApiPath(def.path),
                                   def.operation)
                /\ mounts' = mounts
       /\ (pc = "registered" /\ call.kind = "plugin") =>
            LET def == DefOf(call.handler[1])
                res == setup(def, call.handler[2])
            IN  /\ paths' = paths
                /\ MountsOnlyOn(call.app)
                /\ Added(call.app) =
                     [j \in 1..Len(Declared(def)) |->
                         [method |-> Declared(def)[j],
                          route |-> def.path,
                          handler |-> res.handler,
                          ctx |-> createContext(def.operation),
                          opts |-> [defined |-> TRUE, entries |-> RestOf(res)]]]]_vars

\* C10 witness: the plugin of rA (method 'get') has mounted one route on app1,
\* and the plugin of rB (methods get, post; options from setup) two on app2.
C10_Witness ==
    /\ pc = "done"
    /\ call.kind = "plugin"
    /\ call.app = "app2"
    /\ mounts["app1"] = <<mount("get", <<"/", ":", "a">>, <<"rA", 1>>, createContext("opA"),
                                [defined |-> TRUE, entries |-> {}])>>
    /\ Len(mounts["app2"]) = 2
    /\ mounts["app2"][1].method = "get"
    /\ mounts["app2"][2] = mount("post", <<"a">>, <<"rB", 1>>, createContext("opB"),
                                 [defined |-> TRUE, entries |-> {<<"meta", "auth">>}])
    /\ lookup(paths, <<"/", "a">>, "post") = "opB"
    /\ lookup(paths, <<"/", "{", "a", "}">>, "get") = "opA"

(***************************************************************************)
(* OpenApiPaths.routes: one plugin that registers the plugin of every      *)
(* Route it was given, in argument order.                                  *)
(***************************************************************************)
\* most Routes given to one routes() call
MaxBatch == 2

\* the option sets of the routes given to routes(): those above and one that
\* names the same converted path and method as rB with another operation
BatchDefs ==
    RouteDefs \cup
    {[id |-> "rC", method |-> [type |-> "string", value |-> "post"],
      path |-> <<"/", "a">>, operation |-> "opA", setup |-> "function"]}

\* one resolved Route of each
BatchRoutes == {routeFactory(def, 1) : def \in BatchDefs}

\* the argument lists of routes(): up to MaxBatch Routes, none given twice
BatchArgs ==
    {routes \in UNION {[1..n -> BatchRoutes] : n \in 0..MaxBatch} :
        \A i, j \in 1..Len(routes) : routes[i] = routes[j] => i = j}

\* paths.routes(...routes): definePlugin(...)() returns the plugin; its body
\* has not run.  The setup code makes one such plugin
OpenApiPaths_routes ==
    /\ pc = "idle"
    /\ \A p \in plugins : "routes" \notin DOMAIN p
    /\ \E routes \in BatchArgs :
          plugins' = plugins \cup {[kind |-> "routes", routes |-> routes]}
    /\ UNCHANGED <<constructors, setupCalls, instances, regVars, pathVars, reqVars>>

\* app.register(plugin) for the plugin that routes() returned: its body
\* starts; before holds the tree and the mounts it started from
BatchRegister ==
    /\ pc = "idle"
    /\ nCalls < MaxCalls
    /\ nCalls' = nCalls + 1
    /\ \E plugin \in {p \in plugins : "routes" \in DOMAIN p}, app \in Apps :
        call' = [kind |-> "routes", routes |-> plugin.routes, app |-> app, i |-> 1,
                 before |-> [paths |-> paths, mounts |-> mounts]]
    /\ pc' = "loop"
    /\ UNCHANGED <<paths, mounts, ret, first, pathVars, routeVars, reqVars>>

\* a loop that walks the argument list from its end
routesNextReversed(c) == c.routes[Len(c.routes) - c.i + 1]

\* for (const route of routes): the Route of this iteration
routesNext(c) == c.routes[c.i]

\* app.register(route(this)): route(this) is the Route's plugin, and register
\* runs its body on the app: paths.on(...), then the loop of app.on calls
RoutesRegister ==
    /\ pc = "loop"
    /\ call.i <= Len(call.routes)
    /\ LET r == routesNext(call)
           reg == OpenApiPaths_on(paths, r.methods, toOpenApiPath(r.path), r.operation)
           c == [methods |-> r.methods, path |-> r.path, handler |-> r.handler,
                 ctx |-> reg.ctx, opts |-> r.opts]
       IN  /\ paths' = reg.paths
           /\ first' = recordFirst(first, reg.named, r.operation)
           /\ mounts' = [mounts EXCEPT ![call.app] = @ \o pluginMounts(c)]
    /\ call' = [call EXCEPT !.i = @ + 1]
    /\ UNCHANGED <<pc, ret, nCalls, pathVars, routeVars, reqVars>>

\* the loop is over: the plugin body returns
RoutesReturn ==
    /\ pc = "loop"
    /\ call.i > Len(call.routes)
    /\ pc' = "done"
    /\ ret' = [kind |-> "undefined"]
    /\ UNCHANGED <<paths, mounts, call, nCalls, first, pathVars, routeVars, reqVars>>

\* app.register(someRoute(paths)) for one Route
RegisterOne == \E plugin \in BatchRoutes, app \in Apps : PluginRegister(plugin, app)

BatchNext ==
    \/ OpenApiPaths_routes \/ BatchRegister \/ RoutesRegister \/ RoutesReturn
    \/ RegisterOne \/ PluginMount
    \/ Complete

SpecBatch == Init /\ [][BatchNext]_vars

(***************************************************************************)
(* Setup code that makes plugins of both kinds, Route(paths) and           *)
(* paths.routes(...), and registers them on apps.                          *)
(***************************************************************************)
\* the route constructors are defined and each has been resolved once;
\* nothing is registered yet
DeferredInit ==
    /\ route = <<>>
    /\ result = NoResult
    /\ again = NoResult
    /\ cpc = "input"
    /\ paths = EmptyPaths
    /\ mounts = [a \in Apps |-> <<>>]
    /\ pc = "idle"
    /\ call = NoCall
    /\ ret = NoRet
    /\ nCalls = 0
    /\ first = [p \in {} |-> "none"]
    /\ constructors = RouteDefs
    /\ setupCalls = [d \in {def.id : def \in RouteDefs} |-> 1]
    /\ instances = ResolvedRoutes
    /\ plugins = {}
    /\ NoStore
    /\ event = NoEvent
    /\ NoTrace

DeferredNext ==
    \/ RouteCall \/ RegisterPlugin \/ PluginMount
    \/ OpenApiPaths_routes \/ BatchRegister \/ RoutesRegister \/ RoutesReturn
    \/ Complete

SpecDeferred == DeferredInit /\ [][DeferredNext]_vars

(***************************************************************************)
(* Properties of batch registration.                                       *)
(***************************************************************************)
\* the tree and the mounts after the plugin of Route r alone has been
\* registered on app, from the tree and the mounts of st
OneRegistered(st, r, app) ==
    [paths |-> Policy(st.paths, Range(r.methods), toOpenApiPath(r.path), r.operation),
     mounts |-> [st.mounts EXCEPT ![app] =
                    @ \o [j \in 1..Len(r.methods) |->
                            [method |-> r.methods[j], route |-> r.path,
                             handler |-> r.handler,
                             ctx |-> createContext(r.operation),
                             opts |-> r.opts]]]]

RECURSIVE OneByOne(_, _, _, _)
\* the same for the plugins of routes[i], routes[i+1], ... registered on app
\* one after the other
OneByOne(st, routes, app, i) ==
    IF i > Len(routes) THEN st
    ELSE OneByOne(OneRegistered(st, routes[i], app), routes, app, i + 1)

\* C11: registering the plugin of one Route on an app leaves the tree and the
\* mounts of OneRegistered, and when the plugin returned by routes(r1, ..., rn)
\* has been registered on an app, the tree and every app's mounts are those
\* that registering the plugins of r1, ..., rn on that app one after the other,
\* in argument order, leaves from the same start.
C11_BatchEqualsOneByOne ==
    [][/\ (pc = "idle" /\ call'.kind = "plugin") =>
            /\ paths' = OneRegistered([paths |-> paths, mounts |-> mounts],
                                      call', call'.app).paths
            /\ mounts' = mounts
       /\ (pc = "registered" /\ call.kind = "plugin") =>
            /\ mounts' = OneRegistered([paths |-> paths, mounts |-> mounts],
                                       call, call.app).mounts
            /\ paths' = paths
       /\ (pc = "loop" /\ pc' = "done") =>
            [paths |-> paths', mounts |-> mounts'] =
                OneByOne(call.before, call.routes, call.app, 1)]_vars

\* C11 witness: routes(rB, rC) was registered on app2 after a registration on
\* app1; rB and rC both name POST '/a', and the earlier argument's operation
\* is the one stored; app2 has the two mounts of rB and then the one of rC.
C11_Witness ==
    /\ pc = "done"
    /\ call.kind = "routes"
    /\ call.app = "app2"
    /\ Len(call.routes) = 2
    /\ call.routes[1].def = "rB"
    /\ call.routes[2].def = "rC"
    /\ call.before.paths # EmptyPaths
    /\ lookup(paths, <<"/", "a">>, "post") = "opB"
    /\ Len(mounts["app2"]) = 3
    /\ mounts["app2"][3].handler = <<"rC", 1>>

(***************************************************************************)
(* RouterContext: params, query, body, reply and validReply.               *)
(*                                                                         *)
(* A JavaScript primitive is a record of its type and its spelling, so     *)
(* that the string '5' and the number 5 differ and String() and Number()   *)
(* are computed.  An object is a function from its keys to primitives.     *)
(***************************************************************************)
str(s) == [type |-> "string", value |-> s]

num(s) == [type |-> "number", value |-> s]

JsUndefined == [type |-> "undefined", value |-> "undefined"]

NaN == [type |-> "number", value |-> "NaN"]

\* the numerals of the model and the numbers they spell
NumberOf == [n \in {"-1", "2", "5", "85", "123", "150"} |->
                CASE n = "-1" -> -1 [] n = "2" -> 2 [] n = "5" -> 5
                  [] n = "85" -> 85 [] n = "123" -> 123 [] n = "150" -> 150]

isPrimitive(v) == DOMAIN v = {"type", "value"}

\* String(value)
String(v) == str(v.value)

\* Number(value), as z.coerce.number() applies it
Number(v) ==
    CASE v.type = "number" -> v
      [] v.type = "string" /\ v.value \in DOMAIN NumberOf -> num(v.value)
      [] OTHER -> NaN

\* a schema slot of an operation that declares nothing
NoSchema == [kind |-> "none"]

\* a schema given as a plain JSON Schema object, not a Zod type
PlainSchema == [kind |-> "plain"]

\* z.object({ [key]: z.number().int().min(min).max(max) }), the number being
\* z.coerce.number() when coerce is set
zObject(key, coerce, min, max) ==
    [kind |-> "zod", key |-> key, coerce |-> coerce, min |-> min, max |-> max]

\* isAnyZodType(schema)
isAnyZodType(schema) == schema.kind = "zod"

\* safeParse(schema, data) of zod for these schemas: the input must be an
\* object whose key holds (or, coerced, becomes) an integer in the range; the
\* output has that key alone, holding the number
safeParse(schema, data) ==
    IF isPrimitive(data) \/ schema.key \notin DOMAIN data
    THEN [success |-> FALSE, error |-> "ZodError"]
    ELSE LET n == IF schema.coerce THEN Number(data[schema.key]) ELSE data[schema.key]
         IN  IF /\ n.type = "number"
                /\ n.value \in DOMAIN NumberOf
                /\ NumberOf[n.value] >= schema.min
                /\ NumberOf[n.value] <= schema.max
             THEN [success |-> TRUE, data |-> [k \in {schema.key} |-> n]]
             ELSE [success |-> FALSE, error |-> "ZodError"]

\* what a call hands back: a value, or a thrown HTTPError
Return(value) == [kind |-> "return", value |-> value]

HTTPError(status, message) == [kind |-> "throw", status |-> status, message |-> message]

\* h3 validateData: the parsed output, or HTTPError 400
validateData(data, schema) ==
    LET parsed == safeParse(schema, data)
    IN  IF parsed.success THEN Return(parsed.data)
        ELSE HTTPError(400, "Validation failed")

\* h3 getRouterParams(event), getQuery(event)
getRouterParams(ev) == ev.req.params

getQuery(ev) == ev.req.query

\* h3 readBody(event): the decoded body, or HTTPError 400 for a body it
\* cannot decode
readBody(ev) ==
    IF ev.req.body.decodable THEN Return(ev.req.body.value)
    ELSE HTTPError(400, "Invalid body")

\* h3 getValidatedRouterParams, getValidatedQuery, readValidatedBody
getValidatedRouterParams(ev, schema) == validateData(getRouterParams(ev), schema)

getValidatedQuery(ev, schema) == validateData(getQuery(ev), schema)

readValidatedBody(ev, schema) ==
    LET body == readBody(ev)
    IN  IF body.kind = "throw" THEN body ELSE validateData(body.value, schema)

\* createContext: the schemas the context picks out of its operation
paramsSchema(ctx) == ctx.operation.requestParams.path

querySchema(ctx) == ctx.operation.requestParams.query

bodySchema(ctx) ==
    LET bodyRawSchema == ctx.operation.requestBody
    IN  IF isAnyZodType(bodyRawSchema) THEN bodyRawSchema ELSE NoSchema

\* a params that reads the query string when there is no schema
RouterContext_paramsFromQuery(ctx, ev) ==
    IF paramsSchema(ctx).kind # "none"
    THEN getValidatedRouterParams(ev, paramsSchema(ctx))
    ELSE Return(getQuery(ev))

\* ctx.params(event)
RouterContext_params(ctx, ev) ==
    IF paramsSchema(ctx).kind # "none"
    THEN getValidatedRouterParams(ev, paramsSchema(ctx))
    ELSE Return(getRouterParams(ev))

\* ctx.query(event)
RouterContext_query(ctx, ev) ==
    IF querySchema(ctx).kind # "none"
    THEN getValidatedQuery(ev, querySchema(ctx))
    ELSE Return(getQuery(ev))

\* a body that never looks at the schema
RouterContext_bodyUnvalidated(ctx, ev) == readBody(ev)

\* ctx.body(event)
RouterContext_body(ctx, ev) ==
    IF bodySchema(ctx).kind # "none"
    THEN readValidatedBody(ev, bodySchema(ctx))
    ELSE readBody(ev)

\* for (const [key, value] of Object.entries(headers))
\*     event.res.headers.set(key, String(value))
setHeaders(resHeaders, headers) ==
    [k \in DOMAIN resHeaders \cup DOMAIN headers |->
        IF k \in DOMAIN headers THEN String(headers[k]).value ELSE resHeaders[k]]

\* event.res.status = status; if (headers) { ... }
respond(res, status, headers) ==
    [status |-> status,
     headers |-> IF isPrimitive(headers) THEN res.headers ELSE setHeaders(res.headers, headers)]

\* operation.responses?.[status], with the two schemas it may carry
responseOf(operation, status) ==
    IF status \in DOMAIN operation.responses
    THEN operation.responses[status]
    ELSE [schema |-> NoSchema, headers |-> NoSchema]

createValidationError(cause) == HTTPError(500, "Response validation failed")

\* a validReply that sets the status before it validates
validReplyStatusFirst(res, status, data, headers, responseBodySchema, responseHeadersSchema) ==
    LET bodyResult == safeParse(responseBodySchema, data)
        data1 == IF responseBodySchema.kind # "none" THEN bodyResult.data ELSE data
        headersResult == safeParse(responseHeadersSchema, headers)
        headers1 == IF responseHeadersSchema.kind # "none" THEN headersResult.data ELSE headers
        res1 == [res EXCEPT !.status = status]
    IN  IF responseBodySchema.kind # "none" /\ ~bodyResult.success
        THEN [res |-> res1, out |-> createValidationError(bodyResult.error)]
        ELSE IF responseHeadersSchema.kind # "none" /\ ~headersResult.success
        THEN [res |-> res1, out |-> createValidationError(headersResult.error)]
        ELSE [res |-> respond(res1, status, headers1), out |-> Return(data1)]

\* the body of validReply from its arguments and the two schemas it found
validReplyWith(res, status, data, headers, responseBodySchema, responseHeadersSchema) ==
    LET bodyResult == safeParse(responseBodySchema, data)
        data1 == IF responseBodySchema.kind # "none" THEN bodyResult.data ELSE data
        headersResult == safeParse(responseHeadersSchema, headers)
        headers1 == IF responseHeadersSchema.kind # "none" THEN headersResult.data ELSE headers
    IN  IF responseBodySchema.kind # "none" /\ ~bodyResult.success
        THEN [res |-> res, out |-> createValidationError(bodyResult.error)]
        ELSE IF responseHeadersSchema.kind # "none" /\ ~headersResult.success
        THEN [res |-> res, out |-> createValidationError(headersResult.error)]
        ELSE [res |-> respond(res, status, headers1), out |-> Return(data1)]

\* the schemas validReply picks for a status: those that are Zod types
responseBodySchema(ctx, status) ==
    LET responseBodyRawSchema == responseOf(ctx.operation, status).schema
    IN  IF isAnyZodType(responseBodyRawSchema) THEN responseBodyRawSchema ELSE NoSchema

responseHeadersSchema(ctx, status) ==
    LET responseHeadersRawSchema == responseOf(ctx.operation, status).headers
    IN  IF isAnyZodType(responseHeadersRawSchema) THEN responseHeadersRawSchema ELSE NoSchema

\* a reply that validates as validReply does
RouterContext_replyValidating(ctx, ev, status, data, headers) ==
    validReplyWith(ev.res, status, data, headers,
                   responseBodySchema(ctx, status), responseHeadersSchema(ctx, status))

\* ctx.reply(event, status, data, headers): the response it leaves and what
\* it returns
RouterContext_reply(ctx, ev, status, data, headers) ==
    [res |-> respond(ev.res, status, headers), out |-> Return(data)]

\* a validReply that validates data and then returns it as it was given
RouterContext_validReplyKeepsData(ctx, ev, status, data, headers) ==
    LET r == validReplyWith(ev.res, status, data, headers,
                            responseBodySchema(ctx, status), responseHeadersSchema(ctx, status))
    IN  IF r.out.kind = "return" THEN [r EXCEPT !.out = Return(data)] ELSE r

\* a validReply that validates headers only when some were given
RouterContext_validReplyGivenHeadersOnly(ctx, ev, status, data, headers) ==
    validReplyWith(ev.res, status, data, headers,
                   responseBodySchema(ctx, status),
                   IF isPrimitive(headers) THEN NoSchema ELSE responseHeadersSchema(ctx, status))

\* ctx.validReply(event, status, data, headers)
RouterContext_validReply(ctx, ev, status, data, headers) ==
    validReplyWith(ev.res, status, data, headers,
                   responseBodySchema(ctx, status), responseHeadersSchema(ctx, status))

(***************************************************************************)
(* Inputs of the RouterContext calls.                                      *)
(***************************************************************************)
\* z.object({ id: z.coerce.number().int().positive() }), and the like
idSchema == zObject("id", TRUE, 1, 1000)

pageSchema == zObject("page", TRUE, 1, 1000)

scoreSchema == zObject("score", FALSE, 0, 100)

countSchema == zObject("x-count", TRUE, 1, 1000)

\* operation descriptors: requestParams.path and .query, the application/json
\* schema of requestBody, and per status the application/json schema and the
\* headers of the response
Descriptors ==
    {[operationId |-> "bare",
      requestParams |-> [path |-> NoSchema, query |-> NoSchema],
      requestBody |-> NoSchema,
      responses |-> [s \in {201} |-> [schema |-> NoSchema, headers |-> NoSchema]]],
     [operationId |-> "typed",
      requestParams |-> [path |-> idSchema, query |-> pageSchema],
      requestBody |-> scoreSchema,
      responses |-> [s \in {201} |-> [schema |-> scoreSchema, headers |-> countSchema]]],
     [operationId |-> "bodyOnly",
      requestParams |-> [path |-> NoSchema, query |-> pageSchema],
      requestBody |-> scoreSchema,
      responses |-> [s \in {201} |-> [schema |-> zObject("score", TRUE, 0, 100),
                                      headers |-> NoSchema]]],
     [operationId |-> "headersOnly",
      requestParams |-> [path |-> idSchema, query |-> NoSchema],
      requestBody |-> NoSchema,
      responses |-> [s \in {201} |-> [schema |-> NoSchema, headers |-> countSchema]]],
     [operationId |-> "plain",
      requestParams |-> [path |-> NoSchema, query |-> NoSchema],
      requestBody |-> PlainSchema,
      responses |-> [s \in {201} |-> [schema |-> PlainSchema, headers |-> PlainSchema]]]}

\* the requests: route parameters, query mapping and body of each
RequestParams == {[id |-> str("123")], [id |-> str("abc")]}

RequestQueries == {[page |-> str("2")], [page |-> str("abc")]}

RequestBodies ==
    {[decodable |-> TRUE, value |-> [score |-> num("85")]],
     [decodable |-> TRUE, value |-> [score |-> num("85"), note |-> str("abc")]],
     [decodable |-> TRUE, value |-> [score |-> num("150")]],
     [decodable |-> FALSE, value |-> JsUndefined]}

\* the response of a request no handler has touched: no status set, no header
FreshResponse == [status |-> 0, headers |-> [k \in {} |-> ""]]

Events ==
    {[req |-> [params |-> p, query |-> q, body |-> b], res |-> FreshResponse] :
        p \in RequestParams, q \in RequestQueries, b \in RequestBodies}

\* the arguments handlers give to reply and validReply
ReplyStatuses == {200, 201}

ReplyData == {[score |-> num("85")], [score |-> str("85")], [score |-> num("150")]}

ReplyHeaders ==
    {JsUndefined,
     [k \in {"x-count"} |-> num("5")],
     [k \in {"x-count"} |-> num("-1")],
     [k \in {"x-count", "x-id"} |-> IF k = "x-count" THEN str("5") ELSE str("abc")]}

(***************************************************************************)
(* A handler calls the methods of its context while it handles a request.  *)
(***************************************************************************)
ContextInit ==
    /\ route = <<>>
    /\ result = NoResult
    /\ again = NoResult
    /\ cpc = "input"
    /\ RegInit
    /\ NoStore
    /\ event \in Events
    /\ NoTrace

\* one call of a context method: what it leaves in event.res and hands back
ContextCall(kind, ctx, args, res, out) ==
    /\ pc = "idle"
    /\ call' = [kind |-> kind, ctx |-> ctx, args |-> args]
    /\ event' = [event EXCEPT !.res = res]
    /\ ret' = out
    /\ pc' = "done"
    /\ UNCHANGED <<options, mw, spans, active, steps, map, sets>>
    /\ UNCHANGED <<paths, mounts, nCalls, first, pathVars, routeVars>>

ParamsCall ==
    \E operation \in Descriptors :
        LET ctx == createContext(operation)
        IN  ContextCall("params", ctx, <<>>, event.res, RouterContext_params(ctx, event))

QueryCall ==
    \E operation \in Descriptors :
        LET ctx == createContext(operation)
        IN  ContextCall("query", ctx, <<>>, event.res, RouterContext_query(ctx, event))

BodyCall ==
    \E operation \in Descriptors :
        LET ctx == createContext(operation)
        IN  ContextCall("body", ctx, <<>>, event.res, RouterContext_body(ctx, event))

ReplyCall ==
    \E operation \in Descriptors, status \in ReplyStatuses, data \in ReplyData,
       headers \in ReplyHeaders :
        LET ctx == createContext(operation)
            r == RouterContext_reply(ctx, event, status, data, headers)
        IN  ContextCall("reply", ctx, [status |-> status, data |-> data, headers |-> headers],
                        r.res, r.out)

ValidReplyCall ==
    \E operation \in Descriptors, status \in ReplyStatuses, data \in ReplyData,
       headers \in ReplyHeaders :
        LET ctx == createContext(operation)
            r == RouterContext_validReply(ctx, event, status, data, headers)
        IN  ContextCall("validReply", ctx, [status |-> status, data |-> data, headers |-> headers],
                        r.res, r.out)

ContextNext ==
    \/ ParamsCall \/ QueryCall \/ BodyCall
    \/ ReplyCall \/ ValidReplyCall
    \/ Complete

SpecContext == ContextInit /\ [][ContextNext]_vars

(***************************************************************************)
(* Properties of the RouterContext.  What a schema accepts and what it     *)
(* yields are stated here from the schema's meaning, not through safeParse.*)
(***************************************************************************)
\* the schema is one the context can validate with
Validatable(schema) == schema.kind = "zod"

\* data satisfies the schema: an object whose key holds a number, or with
\* coercion the spelling of one, that lies in the range
Satisfies(schema, data) ==
    /\ ~isPrimitive(data)
    /\ schema.key \in DOMAIN data
    /\ \/ data[schema.key].type = "number"
       \/ schema.coerce /\ data[schema.key].type = "string"
    /\ data[schema.key].value \in DOMAIN NumberOf
    /\ NumberOf[data[schema.key].value] \in schema.min..schema.max

\* the parsed output for data that satisfies the schema: the key alone,
\* holding the number
Output(schema, data) == [k \in {schema.key} |-> num(data[schema.key].value)]

\* a context method has just returned or thrown
Called(kind) == pc = "done" /\ call.kind = kind

InputSchema ==
    CASE call.kind = "params" -> call.ctx.operation.requestParams.path
      [] call.kind = "query" -> call.ctx.operation.requestParams.query
      [] call.kind = "body" -> call.ctx.operation.requestBody

RawInput ==
    CASE call.kind = "params" -> event.req.params
      [] call.kind = "query" -> event.req.query
      [] call.kind = "body" -> event.req.body.value

\* C13: with a schema declared, params, query and body return the schema's
\* parsed output when the raw input satisfies the schema, and fail with
\* status 400 when it does not or when the body cannot be decoded; what they
\* return satisfies the schema.
C13_SchemaValidatedInput ==
    (pc = "done" /\ call.kind \in {"params", "query", "body"} /\ Validatable(InputSchema)) =>
        /\ IF Satisfies(InputSchema, RawInput)
           THEN ret = Return(Output(InputSchema, RawInput))
           ELSE ret.kind = "throw" /\ ret.status = 400
        /\ ret.kind = "return" => Satisfies(InputSchema, ret.value)

\* C13 witness: params with the coercing id schema returned the number 123
\* for the raw string '123'.
C13_Witness ==
    /\ Called("params")
    /\ call.ctx.operation.requestParams.path = idSchema
    /\ event.req.params = [id |-> str("123")]
    /\ ret = Return([id |-> num("123")])

\* this step is a call of the named context method
Calls(kind) == pc = "idle" /\ call'.kind = kind

\* the schemas the operation declares for a status, if any
DeclaredResponse(operation, status) ==
    IF status \in DOMAIN operation.responses
    THEN operation.responses[status]
    ELSE [schema |-> NoSchema, headers |-> NoSchema]

\* the response has the status, every key of the headers object holds the
\* spelling of its value, and every other header is as it was
ResponseSet(status, headers) ==
    /\ event'.res.status = status
    /\ DOMAIN event'.res.headers =
          DOMAIN event.res.headers \cup (IF isPrimitive(headers) THEN {} ELSE DOMAIN headers)
    /\ \A k \in DOMAIN event'.res.headers :
          IF ~isPrimitive(headers) /\ k \in DOMAIN headers
          THEN event'.res.headers[k] = headers[k].value
          ELSE event'.res.headers[k] = event.res.headers[k]

\* C14: reply sets the response status to the given status, sets every given
\* header key to the spelling of its value, leaves the other headers and the
\* request alone and returns data as given, whatever the response schemas of
\* the operation say about data and headers; it never throws.
C14_ReplyUnvalidated ==
    [][Calls("reply") =>
          /\ ResponseSet(call'.args.status, call'.args.headers)
          /\ event'.req = event.req
          /\ ret' = Return(call'.args.data)]_vars

\* C14 witness: reply with status 201 returned a score of 150 and set x-count
\* to '-1' although the operation's schemas for 201 cap the score at 100 and
\* want x-count to be at least 1.
C14_Witness ==
    /\ Called("reply")
    /\ call.ctx.operation.responses[201] = [schema |-> scoreSchema, headers |-> countSchema]
    /\ call.args.status = 201
    /\ call.args.data = [score |-> num("150")]
    /\ ret = Return([score |-> num("150")])
    /\ event.res.status = 201
    /\ event.res.headers = [k \in {"x-count"} |-> "-1"]

\* the schema is absent, or the value satisfies it
Accepted(schema, value) == Validatable(schema) => Satisfies(schema, value)

\* C15: validReply looks up the response declared for the status.  With a
\* body schema there, data that does not satisfy it makes validReply throw
\* with status 500 and leave the response untouched, and when validReply
\* returns it returns the schema's output for data, not data; with no body
\* schema for the status it returns data as given when it returns.  It does
\* return whenever data and headers pass the schemas declared for them.
C15_ValidReplyBody ==
    [][Calls("validReply") =>
          LET declared == DeclaredResponse(call'.ctx.operation, call'.args.status)
              schema == declared.schema
              data == call'.args.data
          IN  /\ (Accepted(schema, data) /\ Accepted(declared.headers, call'.args.headers))
                    => ret'.kind = "return"
              /\ IF Validatable(schema)
                 THEN /\ ~Satisfies(schema, data) =>
                            /\ ret'.kind = "throw"
                            /\ ret'.status = 500
                            /\ event' = event
                      /\ ret'.kind = "return" => ret' = Return(Output(schema, data))
                 ELSE ret'.kind = "return" => ret' = Return(data)]_vars

\* C15 witness: validReply returned the number 85 for the string '85' given
\* as score, under a coercing body schema.
C15_Witness ==
    /\ Called("validReply")
    /\ call.args.status = 201
    /\ call.args.data = [score |-> str("85")]
    /\ ret = Return([score |-> num("85")])
    /\ event.res.status = 201

\* C16: with a header schema declared for the status, headers that do not
\* satisfy it, the absent headers argument included, make validReply throw
\* with status 500 and leave the response untouched, and when validReply
\* returns, the headers set on the response are the schema's output for the
\* given headers, each as a string; with no header schema the given headers
\* are the ones set.
C16_ValidReplyHeaders ==
    [][Calls("validReply") =>
          LET schema == DeclaredResponse(call'.ctx.operation, call'.args.status).headers
              headers == call'.args.headers
          IN  IF Validatable(schema)
              THEN /\ ~Satisfies(schema, headers) =>
                         /\ ret'.kind = "throw"
                         /\ ret'.status = 500
                         /\ event' = event
                   /\ ret'.kind = "return" =>
                         ResponseSet(call'.args.status, Output(schema, headers))
              ELSE ret'.kind = "return" => ResponseSet(call'.args.status, headers)]_vars

\* C16 witness: validReply without a headers argument threw with status 500
\* because the response declares a header schema, the body being valid; the
\* response has the header an earlier validReply set from the string '5',
\* and not the x-id that call was given besides.
C16_Witness ==
    /\ Called("validReply")
    /\ call.ctx.operation.operationId = "typed"
    /\ call.args.status = 201
    /\ call.args.data = [score |-> num("85")]
    /\ call.args.headers = JsUndefined
    /\ ret.kind = "throw"
    /\ ret.status = 500
    /\ event.res = [status |-> 201, headers |-> [k \in {"x-count"} |-> "5"]]

(***************************************************************************)
(* traceMiddleware of src/src/otel.ts.  A span is a record of what the     *)
(* OpenTelemetry calls made on it have left; an attribute key is a tuple of *)
(* its parts.                                                              *)
(***************************************************************************)
\* contexts: the ambient one, the one a propagator extracts from the request
\* headers, and trace.setSpan(parent, span)
AmbientContext == [kind |-> "ambient"]

RemoteContext(propagator, traceparent) ==
    [kind |-> "remote", by |-> propagator, traceparent |-> traceparent]

setSpan(parent, r) == [kind |-> "span", of |-> r, parent |-> parent]

\* the options given to traceMiddleware: spanName and spanAttributes are
\* absent, given, or given and throwing; headers.request and headers.response
\* are the capture lists; propagation.propagator is absent or a custom one.
\* propagation.response is the option of the documented interface (OTEL.md,
\* "Trace Context Propagation"), which a caller may pass and which
\* traceMiddleware does not read
TraceOptions ==
    {[spanName |-> "absent", spanAttributes |-> "absent",
      headers |-> [request |-> <<>>, response |-> <<>>],
      propagation |-> [disabled |-> FALSE, propagator |-> "absent", response |-> FALSE]],
     [spanName |-> "given", spanAttributes |-> "given",
      headers |-> [request |-> <<"X-Api-Key">>, response |-> <<"X-Request-Id">>],
      propagation |-> [disabled |-> TRUE, propagator |-> "absent", response |-> FALSE]],
     [spanName |-> "throws", spanAttributes |-> "absent",
      headers |-> [request |-> <<>>, response |-> <<>>],
      propagation |-> [disabled |-> FALSE, propagator |-> "absent", response |-> FALSE]],
     [spanName |-> "absent", spanAttributes |-> "throws",
      headers |-> [request |-> <<>>, response |-> <<>>],
      propagation |-> [disabled |-> FALSE, propagator |-> "absent", response |-> FALSE]],
     [spanName |-> "absent", spanAttributes |-> "absent",
      headers |-> [request |-> <<>>, response |-> <<>>],
      propagation |-> [disabled |-> FALSE, propagator |-> "custom", response |-> TRUE]]}

\* options?.propagation?.propagator ?? propagation
propagatorOf(o) ==
    IF o.propagation.propagator = "absent" THEN "global" ELSE o.propagation.propagator

\* a middleware that extracts whatever the configuration says
propagationDisabledIgnored(o) == FALSE

\* options?.propagation?.disabled ?? false
propagationDisabled(o) == o.propagation.disabled

\* header names are matched without regard to case
toLowerCase(name) ==
    CASE name = "X-Api-Key" -> "x-api-key"
      [] name = "X-Request-Id" -> "x-request-id"
      [] OTHER -> name

\* headers.get(name): the value, or null
headersGet(headers, name) ==
    IF toLowerCase(name) \in DOMAIN headers THEN headers[toLowerCase(name)] ELSE "null"

\* the URLs of the inbound requests, by component: without credentials, with
\* a username and a password, with a username alone
TraceUrls ==
    {[protocol |-> <<"http", ":">>, username |-> "", password |-> "",
      host |-> "localhost", pathname |-> "/users", search |-> <<>>],
     [protocol |-> <<"http", ":">>, username |-> "bob", password |-> "secret",
      host |-> "localhost", pathname |-> "/users", search |-> <<"?", "page=2">>],
     [protocol |-> <<"http", ":">>, username |-> "amy", password |-> "",
      host |-> "localhost", pathname |-> "/users", search |-> <<>>]}

\* event.req.url: the URL as the request carries it, a string made of the
\* pieces protocol // [username [: password] @] host pathname [search]
href(u) ==
    u.protocol \o <<"//">>
      \o (IF u.username # "" \/ u.password # ""
          THEN <<u.username>> \o (IF u.password # "" THEN <<":", u.password>> ELSE <<>>) \o <<"@">>
          ELSE <<>>)
      \o <<u.host, u.pathname>> \o u.search

\* getRequestURL(event): the URL object parsed from the request's URL
getRequestURL(ev) ==
    LET s == ev.req.url
        at == IF \E i \in 1..Len(s) : s[i] = "@"
              THEN CHOOSE i \in 1..Len(s) : s[i] = "@" ELSE 3
    IN  [protocol |-> <<s[1], s[2]>>,
         username |-> IF at > 3 THEN s[4] ELSE "",
         password |-> IF at = 7 THEN s[6] ELSE "",
         host |-> s[at + 1],
         pathname |-> s[at + 2],
         search |-> SubSeq(s, at + 3, Len(s))]

TraceHeaders ==
    {[h \in {} |-> ""],
     [h \in {"traceparent", "user-agent", "x-api-key"} |->
         CASE h = "traceparent" -> "00-abc-def-01"
           [] h = "user-agent" -> "curl"
           [] h = "x-api-key" -> "k1"]}

TraceEvents ==
    {[req |-> [method |-> "GET", url |-> href(u), headers |-> h, aborted |-> FALSE]] :
        u \in TraceUrls, h \in TraceHeaders}

\* what the downstream chain can hand back: a response, or a thrown value
\* that is an Error or is not
Responses ==
    {[status |-> s, headers |-> h] :
        s \in {200, 404, 499, 500, 503},
        h \in {[k \in {} |-> ""],
               [k \in {"x-request-id", "set-cookie"} |->
                   IF k = "x-request-id" THEN "id1" ELSE "sid=1"]}}

Thrown == {[kind |-> "Error", message |-> "boom"], [kind |-> "string", value |-> "oops"]}

\* propagator.extract(context.active(), event.req.headers, getter)
propagatorExtract(propagator, ctx, headers) ==
    IF headersGet(headers, "traceparent") # "null"
    THEN RemoteContext(propagator, headersGet(headers, "traceparent"))
    ELSE ctx

\* getRequestURL(event), then the two redactions
redactedURL(ev) ==
    LET url == getRequestURL(ev)
    IN  [url EXCEPT !.username = IF url.username # "" THEN "REDACTED" ELSE @,
                    !.password = IF url.password # "" THEN "REDACTED" ELSE @]

\* options?.spanName?.(event) ?? `${event.req.method} ${url.pathname}`
spanNameOf(o, ev, url) ==
    IF o.spanName = "given" THEN <<"Custom", ev.req.method>>
    ELSE <<ev.req.method, url.pathname>>

\* tracer.startSpan(name, { kind: SpanKind.SERVER }, extractedCtx)
startSpan(name, kind, parent, recording) ==
    [started |-> 1, ended |-> 0, name |-> name, kind |-> kind, parent |-> parent,
     recording |-> recording, attributes |-> [k \in {} |-> ""],
     status |-> [code |-> "UNSET", message |-> Undefined], events |-> <<>>]

\* span.setAttributes(attrs); span.setAttribute(key, value) is the case of one
setAttributes(span, attrs) ==
    [span EXCEPT !.attributes =
        [k \in DOMAIN @ \cup DOMAIN attrs |-> IF k \in DOMAIN attrs THEN attrs[k] ELSE @[k]]]

\* span.setStatus({ code, message })
setStatus(span, code, message) == [span EXCEPT !.status = [code |-> code, message |-> message]]

\* span.recordException(error)
recordException(span, error) ==
    [span EXCEPT !.events = Append(@, [name |-> "exception", exception |-> error])]

\* span.end()
end(span) == [span EXCEPT !.ended = @ + 1]

\* one attribute
attr(key, value) == [k \in {key} |-> value]

\* attributes g set after attributes f
merge(f, g) == [k \in DOMAIN f \cup DOMAIN g |-> IF k \in DOMAIN g THEN g[k] ELSE f[k]]

RECURSIVE headerAttrs(_, _, _, _)
\* for (const header of names) { const value = headers.get(header);
\*   if (value != null) span.setAttribute(ATTR(header.toLowerCase()), [value]) }
headerAttrs(prefix, names, headers, i) ==
    IF i > Len(names) THEN [k \in {} |-> ""]
    ELSE merge(IF headersGet(headers, names[i]) # "null"
               THEN attr(<<prefix, toLowerCase(names[i])>>, <<headersGet(headers, names[i])>>)
               ELSE [k \in {} |-> ""],
               headerAttrs(prefix, names, headers, i + 1))

\* the attributes set before the custom ones: the standard ones and the
\* captured request headers
standardAttributes(o, ev, url) ==
    merge(attr(<<"http.request.method">>, ev.req.method),
    merge(attr(<<"url.full">>, ev.req.url),
    merge(attr(<<"url.path">>, url.pathname),
    merge(IF url.search # <<>> THEN attr(<<"url.query">>, url.search[2]) ELSE [k \in {} |-> ""],
    merge(attr(<<"url.scheme">>, url.protocol[1]),
    merge(attr(<<"server.address">>, url.host),
    merge(IF headersGet(ev.req.headers, "user-agent") # "null"
          THEN attr(<<"user_agent.original">>, headersGet(ev.req.headers, "user-agent"))
          ELSE [k \in {} |-> ""],
          headerAttrs("http.request.header", o.headers.request, ev.req.headers, 1))))))))

\* options.spanAttributes(event) of a callback that returns
customAttributes(o, ev) ==
    IF o.spanAttributes = "given" THEN attr(<<"custom">>, ev.req.method) ELSE [k \in {} |-> ""]

\* a mapping that counts 500 itself as a success
spanStatusCodeAbove(status) == IF status <= 500 THEN "OK" ELSE "ERROR"

\* response.status < 500 ? SpanStatusCode.OK : SpanStatusCode.ERROR
spanStatusCode(status) == IF status < 500 THEN "OK" ELSE "ERROR"

\* a success path that captures every header of the response
responseAttributesAllHeaders(o, response) ==
    merge(attr(<<"http.response.status_code">>, response.status),
          [k \in {<<"http.response.header", h>> : h \in DOMAIN response.headers} |->
              <<response.headers[k[2]]>>])

\* the attributes of the success path
responseAttributes(o, response) ==
    merge(attr(<<"http.response.status_code">>, response.status),
          headerAttrs("http.response.header", o.headers.response, response.headers, 1))

\* err instanceof Error ? err : new Error(String(err))
errorOf(err) == IF err.kind = "Error" THEN err ELSE [kind |-> "Error", message |-> err.value]

\* (err as Error)?.message
messageOf(err) == IF "message" \in DOMAIN err THEN err.message ELSE Undefined

\* a catch block that throws a new error around the one it caught
rethrownWrapped(err) == [kind |-> "Error", message |-> "wrapped", cause |-> err]

\* throw err
rethrown(err) == err

\* what a throwing spanName or spanAttributes callback throws
CallbackError == [kind |-> "Error", message |-> "callback"]

\* the middleware is invoked for request r with event ev
Invocation(ev) ==
    [pc |-> "extract", event |-> ev, extractCalls |-> 0,
     extractedCtx |-> AmbientContext, spanCtx |-> AmbientContext,
     settled |-> [kind |-> "none"], ret |-> NoRet]

TraceInit ==
    /\ route = <<>>
    /\ result = NoResult
    /\ again = NoResult
    /\ cpc = "input"
    /\ RegInit
    /\ NoStore
    /\ event = NoEvent
    /\ options \in TraceOptions
    /\ \E ev \in TraceEvents :
          mw = [r \in Requests |-> IF r = "r1" THEN Invocation(ev) ELSE [pc |-> "absent"]]
    /\ spans = [r \in Requests |-> [started |-> 0, ended |-> 0]]
    /\ active = [r \in Requests |-> AmbientContext]
    /\ steps = [r \in Requests |-> <<>>]

\* what no step of the trace middleware touches
TraceUnchanged == UNCHANGED <<event, options, map, sets, regVars, pathVars, routeVars>>

\* lines 141-143: the base context
Extract(r) ==
    /\ mw[r].pc = "extract"
    /\ mw' = [mw EXCEPT ![r].pc = "startSpan",
                        ![r].extractedCtx =
                            IF propagationDisabled(options) THEN active[r]
                            ELSE propagatorExtract(propagatorOf(options), active[r],
                                                   mw[r].event.req.headers),
                        ![r].extractCalls = IF propagationDisabled(options) THEN @ ELSE @ + 1]
    /\ steps' = [steps EXCEPT ![r] = Append(@, "extract")]
    /\ UNCHANGED <<spans, active>>
    /\ TraceUnchanged

\* lines 145-156: the URL, the span name, tracer.startSpan; the span is
\* recording or not as the tracer's sampler decides
StartSpan(r) ==
    /\ mw[r].pc = "startSpan"
    /\ IF options.spanName = "throws"
       THEN /\ mw' = [mw EXCEPT ![r].pc = "finished",
                                ![r].ret = [kind |-> "throw", value |-> CallbackError]]
            /\ UNCHANGED <<spans, steps>>
       ELSE /\ \E recording \in BOOLEAN :
                  spans' = [spans EXCEPT ![r] =
                      startSpan(spanNameOf(options, mw[r].event, redactedURL(mw[r].event)),
                                "SERVER", mw[r].extractedCtx, recording)]
            /\ mw' = [mw EXCEPT ![r].pc = "setAttributes",
                                ![r].spanCtx = setSpan(mw[r].extractedCtx, r)]
            /\ steps' = [steps EXCEPT ![r] = Append(@, "startSpan")]
    /\ UNCHANGED active
    /\ TraceUnchanged

\* lines 158-186: the request attributes, set only on a recording span; a
\* spanAttributes callback that throws ends the middleware there, after the
\* attributes set before it
SetAttributes(r) ==
    /\ mw[r].pc = "setAttributes"
    /\ LET ev == mw[r].event
           standard == standardAttributes(options, ev, redactedURL(ev))
       IN  IF ~spans[r].recording
           THEN /\ mw' = [mw EXCEPT ![r].pc = "invoke"]
                /\ UNCHANGED <<spans, steps>>
           ELSE IF options.spanAttributes = "throws"
           THEN /\ spans' = [spans EXCEPT ![r] = setAttributes(@, standard)]
                /\ mw' = [mw EXCEPT ![r].pc = "finished",
                                    ![r].ret = [kind |-> "throw", value |-> CallbackError]]
                /\ steps' = [steps EXCEPT ![r] = Append(@, "setAttributes")]
           ELSE /\ spans' = [spans EXCEPT ![r] =
                       setAttributes(setAttributes(@, standard), customAttributes(options, ev))]
                /\ mw' = [mw EXCEPT ![r].pc = "invoke"]
                /\ steps' = [steps EXCEPT ![r] = Append(@, "setAttributes")]
    /\ UNCHANGED active
    /\ TraceUnchanged

\* an invocation that calls next() without making the span active
InvokeOutsideContext(r) ==
    /\ mw[r].pc = "invoke"
    /\ mw' = [mw EXCEPT ![r].pc = "downstream"]
    /\ steps' = [steps EXCEPT ![r] = Append(@, "invoke")]
    /\ UNCHANGED <<spans, active>>
    /\ TraceUnchanged

\* lines 188-190: context.with(spanCtx, ...) calls next(); the downstream
\* chain runs with spanCtx active
Invoke(r) ==
    /\ mw[r].pc = "invoke"
    /\ active' = [active EXCEPT ![r] = mw[r].spanCtx]
    /\ mw' = [mw EXCEPT ![r].pc = "downstream"]
    /\ steps' = [steps EXCEPT ![r] = Append(@, "invoke")]
    /\ UNCHANGED spans
    /\ TraceUnchanged

\* the host aborts the request while the downstream chain is running;
\* nothing in the middleware listens to it
Cancel(r) ==
    /\ mw[r].pc = "downstream"
    /\ ~mw[r].event.req.aborted
    /\ mw' = [mw EXCEPT ![r].event.req.aborted = TRUE]
    /\ UNCHANGED <<spans, active, steps>>
    /\ TraceUnchanged

\* lines 190-192: next() resolves and toResponse gives the response
DownstreamReturns(r) ==
    /\ mw[r].pc = "downstream"
    /\ \E response \in Responses :
          mw' = [mw EXCEPT ![r].pc = "success",
                           ![r].settled = [kind |-> "response", response |-> response]]
    /\ active' = [active EXCEPT ![r] = AmbientContext]
    /\ UNCHANGED <<spans, steps>>
    /\ TraceUnchanged

\* next() or toResponse throws
DownstreamThrows(r) ==
    /\ mw[r].pc = "downstream"
    /\ \E err \in Thrown :
          mw' = [mw EXCEPT ![r].pc = "catch",
                           ![r].settled = [kind |-> "throw", value |-> err]]
    /\ active' = [active EXCEPT ![r] = AmbientContext]
    /\ UNCHANGED <<spans, steps>>
    /\ TraceUnchanged

\* lines 194-213: the success path; return response is pending
Success(r) ==
    /\ mw[r].pc = "success"
    /\ LET response == mw[r].settled.response
       IN  /\ spans' = [spans EXCEPT ![r] =
                  IF @.recording
                  THEN setAttributes(
                           setStatus(setAttributes(@, attr(<<"http.response.status_code">>,
                                                           response.status)),
                                     spanStatusCode(response.status), Undefined),
                           responseAttributes(options, response))
                  ELSE @]
           /\ mw' = [mw EXCEPT ![r].pc = "finally",
                               ![r].ret = [kind |-> "return", value |-> response]]
    /\ steps' = [steps EXCEPT ![r] = Append(@, "success")]
    /\ UNCHANGED active
    /\ TraceUnchanged

\* a catch block of a middleware that keeps its span outside the request's
\* closure: the exception lands on every span that is open
CatchOnSharedSpan(r) ==
    /\ mw[r].pc = "catch"
    /\ LET err == mw[r].settled.value
       IN  /\ spans' = [q \in Requests |->
                  IF spans[q].started = 1 /\ spans[q].ended = 0 /\ spans[q].recording
                  THEN setStatus(recordException(spans[q], errorOf(err)), "ERROR", messageOf(err))
                  ELSE spans[q]]
           /\ mw' = [mw EXCEPT ![r].pc = "finally",
                               ![r].ret = [kind |-> "throw", value |-> rethrown(err)]]
    /\ steps' = [steps EXCEPT ![r] = Append(@, "exception")]
    /\ UNCHANGED active
    /\ TraceUnchanged

\* a catch block that sets the status and forgets the exception event
CatchWithoutEvent(r) ==
    /\ mw[r].pc = "catch"
    /\ LET err == mw[r].settled.value
       IN  /\ spans' = [spans EXCEPT ![r] =
                  IF @.recording THEN setStatus(@, "ERROR", messageOf(err)) ELSE @]
           /\ mw' = [mw EXCEPT ![r].pc = "finally",
                               ![r].ret = [kind |-> "throw", value |-> rethrown(err)]]
    /\ steps' = [steps EXCEPT ![r] = Append(@, "exception")]
    /\ UNCHANGED active
    /\ TraceUnchanged

\* lines 214-224: the catch block; throw err is pending
Catch(r) ==
    /\ mw[r].pc = "catch"
    /\ LET err == mw[r].settled.value
       IN  /\ spans' = [spans EXCEPT ![r] =
                  IF @.recording
                  THEN setStatus(recordException(@, errorOf(err)), "ERROR", messageOf(err))
                  ELSE @]
           /\ mw' = [mw EXCEPT ![r].pc = "finally",
                               ![r].ret = [kind |-> "throw", value |-> rethrown(err)]]
    /\ steps' = [steps EXCEPT ![r] = Append(@, "exception")]
    /\ UNCHANGED active
    /\ TraceUnchanged

\* lines 225-228: finally { span.end() }, then the pending return or throw
Finally(r) ==
    /\ mw[r].pc = "finally"
    /\ spans' = [spans EXCEPT ![r] = end(@)]
    /\ mw' = [mw EXCEPT ![r].pc = "finished"]
    /\ steps' = [steps EXCEPT ![r] = Append(@, "end")]
    /\ UNCHANGED active
    /\ TraceUnchanged

TraceNext ==
    \E r \in Requests :
        \/ Extract(r) \/ StartSpan(r) \/ SetAttributes(r)
        \/ Invoke(r) \/ Cancel(r)
        \/ DownstreamReturns(r) \/ DownstreamThrows(r)
        \/ Success(r) \/ Catch(r) \/ Finally(r)

SpecTrace == TraceInit /\ [][TraceNext]_vars

(***************************************************************************)
(* Properties of the trace middleware.                                     *)
(***************************************************************************)
\* the middleware has done op for request r
Did(r, op) == \E i \in 1..Len(steps[r]) : steps[r][i] = op

\* it has done a and b, and a first
DidBefore(r, a, b) ==
    \E i, j \in 1..Len(steps[r]) : i < j /\ steps[r][i] = a /\ steps[r][j] = b

\* C17: for every request at most one span is started and a span is ended at
\* most once; once the downstream chain has been invoked exactly one span has
\* been started; and when the middleware is through with a request, by
\* returning or by throwing, the span it started has been ended exactly once,
\* span.end() being the last thing it did when the downstream chain was
\* invoked, also for a request the host has cancelled.
C17_SpanEndedOnce ==
    \A r \in Requests :
        /\ spans[r].started <= 1
        /\ spans[r].ended <= spans[r].started
        /\ Did(r, "invoke") => spans[r].started = 1
        /\ mw[r].pc = "finished" =>
              /\ spans[r].ended = spans[r].started
              /\ Did(r, "invoke") => steps[r][Len(steps[r])] = "end"

\* C18: for every request each step happens at most once; the span is started
\* after the context extraction, the downstream chain is invoked after the
\* span was started and, on a recording span, after the request attributes
\* were set; the success or exception branch comes after the invocation and
\* span.end() after that branch; and while the downstream chain runs, the
\* active context of the request is the one holding the new span, whose
\* parent is the extracted context, the span being started and not ended.
C18_PerRequestOrdering ==
    \A r \in Requests :
        /\ \A i, j \in 1..Len(steps[r]) : steps[r][i] = steps[r][j] => i = j
        /\ Did(r, "startSpan") => DidBefore(r, "extract", "startSpan")
        /\ Did(r, "setAttributes") => DidBefore(r, "startSpan", "setAttributes")
        /\ Did(r, "invoke") =>
              /\ DidBefore(r, "startSpan", "invoke")
              /\ spans[r].recording =>
                    /\ DidBefore(r, "setAttributes", "invoke")
                    /\ <<"http.request.method">> \in DOMAIN spans[r].attributes
        /\ Did(r, "success") => DidBefore(r, "invoke", "success") /\ ~Did(r, "exception")
        /\ Did(r, "exception") => DidBefore(r, "invoke", "exception")
        /\ Did(r, "end") =>
              \/ DidBefore(r, "success", "end")
              \/ DidBefore(r, "exception", "end")
        /\ mw[r].pc = "downstream" =>
              /\ active[r] = [kind |-> "span", of |-> r, parent |-> mw[r].extractedCtx]
              /\ spans[r].parent = mw[r].extractedCtx
              /\ spans[r].started = 1
              /\ spans[r].ended = 0
              /\ steps[r][Len(steps[r])] = "invoke"

\* C18 witness: a request with a traceparent header went through every step
\* of the exception path on a recording span, in order.
C18_Witness ==
    /\ mw["r1"].pc = "finished"
    /\ steps["r1"] = <<"extract", "startSpan", "setAttributes", "invoke", "exception", "end">>
    /\ spans["r1"].parent.kind = "remote"
    /\ spans["r1"].parent.traceparent = "00-abc-def-01"

\* C19: once the success branch has run on a recording span, the span has
\* http.response.status_code equal to the status of the response the
\* downstream chain produced, and its status is OK when that status is below
\* 500 and ERROR when it is 500 or above.
C19_StatusMapping ==
    \A r \in Requests :
        (Did(r, "success") /\ spans[r].recording) =>
            LET status == mw[r].settled.response.status
            IN  /\ spans[r].attributes[<<"http.response.status_code">>] = status
                /\ status \in 0..499 => spans[r].status.code = "OK"
                /\ status \in 500..599 => spans[r].status.code = "ERROR"
                /\ spans[r].status.code \in {"OK", "ERROR"}

\* C19 witness: a response with status 500 left the span with status ERROR.
C19_Witness ==
    /\ mw["r1"].pc = "finished"
    /\ mw["r1"].ret.kind = "return"
    /\ mw["r1"].ret.value.status = 500
    /\ spans["r1"].recording
    /\ spans["r1"].attributes[<<"http.response.status_code">>] = 500
    /\ spans["r1"].status.code = "ERROR"

\* the message of a thrown value: that of an Error, none otherwise
ThrownMessage(v) == IF v.kind = "Error" THEN v.message ELSE Undefined

\* what the exception branch leaves on the span
ExceptionRecorded(r) ==
    /\ Len(spans[r].events) = 1
    /\ spans[r].events[1].name = "exception"
    /\ spans[r].status = [code |-> "ERROR", message |-> ThrownMessage(mw[r].settled.value)]

\* the thrown value is what the middleware throws, and it returns no response
Rethrown(r) ==
    /\ mw[r].ret = [kind |-> "throw", value |-> mw[r].settled.value]
    /\ mw[r].pc = "finished" => mw[r].ret.kind = "throw"

\* C20 as stated: when the downstream chain has thrown into the middleware,
\* the span has exactly one exception event and status ERROR with the
\* message of the thrown value, and the middleware throws that very value.
C20_Original ==
    \A r \in Requests :
        Did(r, "exception") => ExceptionRecorded(r) /\ Rethrown(r)

\* C20 amended: when the downstream chain has thrown into the middleware, the
\* middleware throws that very value and returns no response; when the span
\* is recording it has exactly one exception event and status ERROR with the
\* message of the thrown value, and when it is not, nothing is recorded on it.
C20_ExceptionPath ==
    \A r \in Requests :
        /\ Did(r, "exception") =>
              /\ Rethrown(r)
              /\ spans[r].recording => ExceptionRecorded(r)
              /\ ~spans[r].recording => spans[r].events = <<>>
        /\ (mw[r].pc \in {"catch", "finally", "finished"} /\ mw[r].settled.kind = "throw")
              => mw[r].ret.kind # "return"

\* C20 witness: the downstream chain threw an Error; the recording span has
\* one exception event and the message, and the middleware threw the Error.
C20_Witness ==
    /\ mw["r1"].pc = "finished"
    /\ mw["r1"].settled = [kind |-> "throw", value |-> [kind |-> "Error", message |-> "boom"]]
    /\ mw["r1"].ret = [kind |-> "throw", value |-> [kind |-> "Error", message |-> "boom"]]
    /\ spans["r1"].recording
    /\ Len(spans["r1"].events) = 1
    /\ spans["r1"].status = [code |-> "ERROR", message |-> "boom"]
    /\ spans["r1"].ended = 1

\* the username and the password the URL of request r carries
Credentials(r) ==
    {getRequestURL(mw[r].event).username, getRequestURL(mw[r].event).password} \ {""}

\* the pieces of an attribute that is a string made of pieces
Pieces(s) == {s[i] : i \in 1..Len(s)}

\* C21: once the request attributes have been set on the span of a request,
\* none of url.full, url.path, url.query, url.scheme and server.address
\* holds the username or the password that the request's URL carries.
C21_CredentialsRedacted ==
    \A r \in Requests :
        Did(r, "setAttributes") =>
            \A secret \in Credentials(r) :
                LET a == spans[r].attributes
                IN  /\ secret \notin Pieces(a[<<"url.full">>])
                    /\ a[<<"url.path">>] # secret
                    /\ <<"url.query">> \in DOMAIN a => a[<<"url.query">>] # secret
                    /\ a[<<"url.scheme">>] # secret
                    /\ a[<<"server.address">>] # secret

\* the header attributes of the span of request r under a prefix
HeaderKeys(r, prefix) ==
    {k \in DOMAIN spans[r].attributes : Len(k) = 2 /\ k[1] = prefix}

\* the lower-cased names of a capture list that the headers hold
Captured(list, headers) ==
    {toLowerCase(list[i]) : i \in 1..Len(list)} \cap DOMAIN headers

\* C22: a span has an http.request.header.<name> attribute only for the
\* lower-cased names of the request capture list that the request holds, and
\* an http.response.header.<name> attribute only for those of the response
\* capture list that the produced response holds; its value is the list of
\* the one header value; a recording span has all of these once the request
\* attributes, respectively the success branch, are through; and no other
\* header of the request or of the response is on the span.
C22_HeaderAllowList ==
    \A r \in Requests :
        spans[r].started = 1 =>
            LET req == mw[r].event.req.headers
                wanted == Captured(options.headers.request, req)
                res == IF mw[r].settled.kind = "response"
                       THEN mw[r].settled.response.headers ELSE [k \in {} |-> ""]
                produced == Captured(options.headers.response, res)
            IN  /\ \A k \in HeaderKeys(r, "http.request.header") :
                      k[2] \in wanted /\ spans[r].attributes[k] = <<req[k[2]]>>
                /\ \A k \in HeaderKeys(r, "http.response.header") :
                      k[2] \in produced /\ spans[r].attributes[k] = <<res[k[2]]>>
                /\ (spans[r].recording /\ Did(r, "setAttributes")) =>
                      {k[2] : k \in HeaderKeys(r, "http.request.header")} = wanted
                /\ (spans[r].recording /\ Did(r, "success")) =>
                      {k[2] : k \in HeaderKeys(r, "http.response.header")} = produced

\* C22 witness: with X-Api-Key and X-Request-Id in the capture lists, a
\* request with traceparent, user-agent and x-api-key headers was answered
\* with x-request-id and set-cookie headers; the span has the two captured
\* headers under their lower-cased names and no other header attribute.
C22_Witness ==
    /\ mw["r1"].pc = "finished"
    /\ options.headers.request = <<"X-Api-Key">>
    /\ "traceparent" \in DOMAIN mw["r1"].event.req.headers
    /\ mw["r1"].settled.kind = "response"
    /\ "set-cookie" \in DOMAIN mw["r1"].settled.response.headers
    /\ HeaderKeys("r1", "http.request.header") = {<<"http.request.header", "x-api-key">>}
    /\ HeaderKeys("r1", "http.response.header") = {<<"http.response.header", "x-request-id">>}
    /\ spans["r1"].attributes[<<"http.request.header", "x-api-key">>] = <<"k1">>
    /\ spans["r1"].attributes[<<"http.response.header", "x-request-id">>] = <<"id1">>

\* the context the span of request r is to be parented to when extraction
\* is on: what the configured propagator, or the global one, finds in the
\* request headers, and the ambient context when it finds nothing
ExtractedFrom(r) ==
    LET headers == mw[r].event.req.headers
    IN  IF "traceparent" \in DOMAIN headers
        THEN [kind |-> "remote",
              by |-> IF options.propagation.propagator = "custom" THEN "custom" ELSE "global",
              traceparent |-> headers["traceparent"]]
        ELSE [kind |-> "ambient"]

C24_ResponseInjection ==
    \A r \in Requests :
        mw[r].pc # "absent" =>
            /\ (options.propagation.response
                  /\ mw[r].pc = "finished" /\ mw[r].ret.kind = "return")
                  => DidBefore(r, "invoke", "inject")
            /\ ~options.propagation.response => ~Did(r, "inject")

(***************************************************************************)
(* Two requests in flight at once: the middleware function is entered for  *)
(* the second while the first awaits its downstream chain, and the steps   *)
(* of the two interleave at every await.                                   *)
(***************************************************************************)
ConcurrentEvents ==
    [r \in Requests |->
        IF r = "r1"
        THEN [req |-> [method |-> "GET",
                       url |-> <<"http", ":", "//", "localhost", "/users", "?", "page=2">>,
                       headers |-> [h \in {"traceparent", "x-api-key"} |->
                                       IF h = "traceparent" THEN "00-abc-def-01" ELSE "k1"],
                       aborted |-> FALSE]]
        ELSE [req |-> [method |-> "POST",
                       url |-> <<"http", ":", "//", "localhost", "/posts">>,
                       headers |-> [h \in {"x-api-key"} |-> "k2"],
                       aborted |-> FALSE]]]

ConcurrentInit ==
    /\ route = <<>>
    /\ result = NoResult
    /\ again = NoResult
    /\ cpc = "input"
    /\ RegInit
    /\ NoStore
    /\ event = NoEvent
    /\ options \in TraceOptions
    /\ mw = [r \in Requests |-> Invocation(ConcurrentEvents[r])]
    /\ spans = [r \in Requests |-> [started |-> 0, ended |-> 0]]
    /\ active = [r \in Requests |-> AmbientContext]
    /\ steps = [r \in Requests |-> <<>>]

SpecConcurrent == ConcurrentInit /\ [][TraceNext]_vars

\* what is on the span of request r comes from r's own event, response and
\* thrown value
OwnSpan(r) ==
    spans[r].started = 1 =>
        LET ev == mw[r].event
            a == spans[r].attributes
        IN  /\ spans[r].parent = mw[r].extractedCtx
            /\ options.spanName = "absent" =>
                  spans[r].name = <<ev.req.method, getRequestURL(ev).pathname>>
            /\ <<"http.request.method">> \in DOMAIN a =>
                  /\ a[<<"http.request.method">>] = ev.req.method
                  /\ a[<<"url.full">>] = ev.req.url
                  /\ a[<<"url.path">>] = getRequestURL(ev).pathname
            /\ \A k \in HeaderKeys(r, "http.request.header") :
                  a[k] = <<ev.req.headers[k[2]]>>
            /\ IF Did(r, "success") /\ spans[r].recording
               THEN /\ a[<<"http.response.status_code">>] = mw[r].settled.response.status
                    /\ spans[r].status.code =
                          IF mw[r].settled.response.status >= 500 THEN "ERROR" ELSE "OK"
                    /\ \A k \in HeaderKeys(r, "http.response.header") :
                          a[k] = <<mw[r].settled.response.headers[k[2]]>>
               ELSE /\ <<"http.response.status_code">> \notin DOMAIN a
                    /\ HeaderKeys(r, "http.response.header") = {}
            /\ IF Did(r, "exception") /\ spans[r].recording
               THEN /\ Len(spans[r].events) = 1
                    /\ spans[r].events[1].exception.message \in
                          {v \in {"boom", "oops"} :
                              \/ mw[r].settled.value = [kind |-> "Error", message |-> v]
                              \/ mw[r].settled.value = [kind |-> "string", value |-> v]}
                    /\ spans[r].status =
                          [code |-> "ERROR", message |-> ThrownMessage(mw[r].settled.value)]
               ELSE /\ spans[r].events = <<>>
                    /\ spans[r].status.code = "ERROR" => Did(r, "success")
            /\ spans[r].ended = (IF Did(r, "end") THEN 1 ELSE 0)

\* C25: under every interleaving of two requests in flight, a step of the
\* middleware for one request leaves the span, the active context and the
\* history of the other request as they were, and after every step each
\* request has a span of its own whose name, parent, attributes, status and
\* exception event come from that request's own event, response or thrown
\* value, and which is ended only by that request's own span.end().
C25_Reentrancy ==
    [][/\ \A r \in Requests :
              mw'[r] = mw[r] =>
                  spans'[r] = spans[r] /\ active'[r] = active[r] /\ steps'[r] = steps[r]
       /\ \A r \in Requests : OwnSpan(r)']_vars

\* C25 witness: both requests had their recording spans open at once; the
\* first failed and its span was ended with the exception, while the span of
\* the second, still awaiting its downstream chain, is open and untouched.
C25_Witness ==
    /\ mw["r1"].pc = "finished"
    /\ mw["r1"].ret.kind = "throw"
    /\ spans["r1"].started = 1
    /\ spans["r1"].recording
    /\ spans["r1"].ended = 1
    /\ Len(spans["r1"].events) = 1
    /\ mw["r2"].pc = "downstream"
    /\ spans["r2"].started = 1
    /\ spans["r2"].recording
    /\ spans["r2"].ended = 0
    /\ spans["r2"].events = <<>>
    /\ spans["r2"].status.code = "UNSET"
    /\ spans["r2"].attributes[<<"http.request.method">>] = "POST"
    /\ steps["r1"] = <<"extract", "startSpan", "setAttributes", "invoke", "exception", "end">>
    /\ steps["r2"] = <<"extract", "startSpan", "setAttributes", "invoke">>

(***************************************************************************)
(* Layers around traceMiddleware: a handler that throws or returns, a      *)
(* layer inside the traced chain that may turn what the handler throws     *)
(* into a response, and an error-catching middleware registered before     *)
(* traceMiddleware that may turn what traceMiddleware throws into one.     *)
(***************************************************************************)
\* which of the two catching layers the app has
LayerSetups == [inner : BOOLEAN, outer : BOOLEAN]

\* the response a catching layer answers with: event.res.status = status
caught(status) == [status |-> status, headers |-> [k \in {} |-> ""]]

\* an invocation of the middleware in an app with these layers; handler is
\* what the route handler did, final what the app answers with
LayeredInvocation(ev, layers) ==
    Invocation(ev) @@ [layers |-> layers, handler |-> [kind |-> "none"],
                       final |-> [kind |-> "none"]]

LayeredInit ==
    /\ route = <<>>
    /\ result = NoResult
    /\ again = NoResult
    /\ cpc = "input"
    /\ RegInit
    /\ NoStore
    /\ event = NoEvent
    /\ options \in TraceOptions
    /\ \E ev \in TraceEvents, layers \in LayerSetups :
          mw = [r \in Requests |->
                   IF r = "r1" THEN LayeredInvocation(ev, layers) ELSE [pc |-> "absent"]]
    /\ spans = [r \in Requests |-> [started |-> 0, ended |-> 0]]
    /\ active = [r \in Requests |-> AmbientContext]
    /\ steps = [r \in Requests |-> <<>>]

\* the route handler runs inside the traced chain: it returns a response or
\* throws
Handler(r) ==
    /\ mw[r].pc = "downstream"
    /\ mw[r].handler.kind = "none"
    /\ \/ \E response \in Responses :
             mw' = [mw EXCEPT ![r].handler = [kind |-> "response", response |-> response]]
       \/ \E err \in Thrown :
             mw' = [mw EXCEPT ![r].handler = [kind |-> "throw", value |-> err]]
    /\ UNCHANGED <<spans, active, steps>>
    /\ TraceUnchanged

\* the layer inside the traced chain: with a try/catch around the throwing
\* code it answers with a status of its own, without one it lets the thrown
\* value through; next() settles with the outcome
InnerLayer(r) ==
    /\ mw[r].pc = "downstream"
    /\ mw[r].handler.kind # "none"
    /\ IF mw[r].handler.kind = "throw" /\ mw[r].layers.inner
       THEN \E status \in {404, 503} :
               mw' = [mw EXCEPT ![r].pc = "success",
                                ![r].settled = [kind |-> "response",
                                                response |-> caught(status)]]
       ELSE mw' = [mw EXCEPT ![r].pc = IF mw[r].handler.kind = "throw"
                                       THEN "catch" ELSE "success",
                             ![r].settled = mw[r].handler]
    /\ active' = [active EXCEPT ![r] = AmbientContext]
    /\ UNCHANGED <<spans, steps>>
    /\ TraceUnchanged

\* the middleware registered before traceMiddleware: try { return await
\* next() } catch (err) { event.res.status = 503; return ... }; without it
\* what traceMiddleware throws goes on to the host
OuterLayer(r) ==
    /\ mw[r].pc = "finished"
    /\ mw[r].final.kind = "none"
    /\ mw' = [mw EXCEPT ![r].final =
                 IF mw[r].ret.kind = "throw" /\ mw[r].layers.outer
                 THEN [kind |-> "return", value |-> caught(503)]
                 ELSE mw[r].ret]
    /\ UNCHANGED <<spans, active, steps>>
    /\ TraceUnchanged

LayersNext ==
    \E r \in Requests :
        \/ Extract(r) \/ StartSpan(r) \/ SetAttributes(r) \/ Invoke(r)
        \/ Handler(r) \/ InnerLayer(r)
        \/ Success(r) \/ Catch(r) \/ Finally(r)
        \/ OuterLayer(r)

SpecLayers == LayeredInit /\ [][LayersNext]_vars

(***************************************************************************)
(* Properties of the layering.                                             *)
(***************************************************************************)
\* the request is over: the app has its answer
Over(r) == mw[r].pc = "finished" /\ mw[r].final.kind # "none"

\* what the handler threw came out of the traced chain into traceMiddleware
Propagated(r) == mw[r].handler.kind = "throw" /\ ~mw[r].layers.inner

\* what the handler threw was turned into a response inside the traced chain
Resolved(r) == mw[r].handler.kind = "throw" /\ mw[r].layers.inner

\* the status the span is to have after a response
StatusOf(response) == IF response.status >= 500 THEN "ERROR" ELSE "OK"

\* C26 as stated: when a request is over, its span has an exception event if
\* and only if what the handler threw came out of the traced chain into
\* traceMiddleware; when a layer inside the chain resolved it into a
\* response, the span has no exception event and its status is derived from
\* the response status; when an error-catching middleware before
\* traceMiddleware turned the rethrown error into a response, the span still
\* has one exception event and status ERROR with the exception's message.
C26_Original ==
    \A r \in Requests :
        (mw[r].pc # "absent" /\ Over(r) /\ spans[r].started = 1) =>
            /\ Len(spans[r].events) = (IF Propagated(r) THEN 1 ELSE 0)
            /\ Resolved(r) => spans[r].status.code = StatusOf(mw[r].settled.response)
            /\ (Propagated(r) /\ mw[r].layers.outer) =>
                  /\ mw[r].final = [kind |-> "return", value |-> caught(503)]
                  /\ spans[r].status =
                        [code |-> "ERROR", message |-> ThrownMessage(mw[r].handler.value)]

\* C26 amended: the same for a recording span, and a span that is not
\* recording has no exception event and no status whatever the layers do.
C26_LayeringDecidesException ==
    \A r \in Requests :
        (mw[r].pc # "absent" /\ Over(r) /\ spans[r].started = 1) =>
            IF spans[r].recording
            THEN /\ Len(spans[r].events) = (IF Propagated(r) THEN 1 ELSE 0)
                 /\ \A i \in 1..Len(spans[r].events) : spans[r].events[i].name = "exception"
                 /\ Resolved(r) =>
                       spans[r].status = [code |-> StatusOf(mw[r].settled.response),
                                          message |-> Undefined]
                 /\ Propagated(r) =>
                       spans[r].status =
                          [code |-> "ERROR", message |-> ThrownMessage(mw[r].handler.value)]
                 /\ (Propagated(r) /\ mw[r].layers.outer) =>
                       mw[r].final = [kind |-> "return", value |-> caught(503)]
            ELSE /\ spans[r].events = <<>>
                 /\ spans[r].status.code = "UNSET"

\* C26 witness: the handler threw an Error, nothing inside the chain caught
\* it, the middleware before traceMiddleware answered 503; the recording
\* span has the exception event and status ERROR with the message.
C26_Witness ==
    /\ mw["r1"].pc = "finished"
    /\ mw["r1"].layers = [inner |-> FALSE, outer |-> TRUE]
    /\ mw["r1"].handler = [kind |-> "throw", value |-> [kind |-> "Error", message |-> "boom"]]
    /\ mw["r1"].final = [kind |-> "return", value |-> caught(503)]
    /\ spans["r1"].started = 1
    /\ spans["r1"].recording
    /\ Len(spans["r1"].events) = 1
    /\ spans["r1"].status = [code |-> "ERROR", message |-> "boom"]
    /\ spans["r1"].ended = 1

(***************************************************************************)
(* Context of src/src/index.ts: a store of one value per H3 event, kept in *)
(* a WeakMap keyed by the event object.                                    *)
(***************************************************************************)
JsNull == [type |-> "null", value |-> "null"]

\* the values a Context<T> is given, undefined and null among them
StoreValues == {JsUndefined, JsNull, str("alice"), str("bob")}

\* this.#map.set(event, value)
Context_set(m, e, value) == [k \in DOMAIN m \cup {e} |-> IF k = e THEN value ELSE m[k]]

\* a get that takes a stored undefined or null for a missing value
Context_getDefined(m, e) ==
    IF e \in DOMAIN m /\ m[e] \notin {JsUndefined, JsNull}
    THEN Return(m[e])
    ELSE [kind |-> "throw", error |-> [kind |-> "Error", message |-> "context not found"]]

\* if (this.#map.has(event)) return this.#map.get(event)!;
\* throw new Error("context not found")
Context_get(m, e) ==
    IF e \in DOMAIN m
    THEN Return(m[e])
    ELSE [kind |-> "throw", error |-> [kind |-> "Error", message |-> "context not found"]]

\* return this.#map.get(event)
Context_lookup(m, e) == Return(IF e \in DOMAIN m THEN m[e] ELSE JsUndefined)

\* what no call of a Context method touches
StoreUnchanged ==
    UNCHANGED <<paths, mounts, nCalls, first, pathVars, routeVars,
                event, options, mw, spans, active, steps>>

SetCall ==
    /\ pc = "idle"
    /\ \E e \in StoreEvents, value \in StoreValues :
          /\ map' = Context_set(map, e, value)
          /\ sets' = [sets EXCEPT ![e] = [set |-> TRUE, value |-> value]]
          /\ call' = [kind |-> "set", event |-> e, value |-> value]
    /\ ret' = Return(JsUndefined)
    /\ pc' = "done"
    /\ StoreUnchanged

GetCall ==
    /\ pc = "idle"
    /\ \E e \in StoreEvents :
          /\ call' = [kind |-> "get", event |-> e]
          /\ ret' = Context_get(map, e)
    /\ pc' = "done"
    /\ UNCHANGED <<map, sets>>
    /\ StoreUnchanged

LookupCall ==
    /\ pc = "idle"
    /\ \E e \in StoreEvents :
          /\ call' = [kind |-> "lookup", event |-> e]
          /\ ret' = Context_lookup(map, e)
    /\ pc' = "done"
    /\ UNCHANGED <<map, sets>>
    /\ StoreUnchanged

StoreNext == SetCall \/ GetCall \/ LookupCall \/ Complete

SpecStore == Init /\ [][StoreNext]_vars

(***************************************************************************)
(* Properties of the Context store.                                        *)
(***************************************************************************)
\* C27: after any sequence of set calls on the events, in any interleaving,
\* get(e) returns the value of the latest set(e, v) for that same event e,
\* also when that value is undefined or null, and throws an Error 'context
\* not found' when there has been no set(e, .); lookup(e) returns the value
\* of the latest set(e, v) and undefined when there has been none; sets on
\* another event change neither.
C27_ContextStore ==
    (pc = "done" /\ call.kind \in {"get", "lookup"}) =>
        LET latest == sets[call.event]
        IN  /\ (call.kind = "get" /\ latest.set) =>
                  ret = [kind |-> "return", value |-> latest.value]
            /\ (call.kind = "get" /\ ~latest.set) =>
                  /\ ret.kind = "throw"
                  /\ ret.error = [kind |-> "Error", message |-> "context not found"]
            /\ (call.kind = "lookup" /\ latest.set) =>
                  ret = [kind |-> "return", value |-> latest.value]
            /\ (call.kind = "lookup" /\ ~latest.set) =>
                  ret = [kind |-> "return", value |-> [type |-> "undefined", value |-> "undefined"]]

\* C27 witness: e1 was set to undefined and e2 to 'bob'; get(e1) returns
\* undefined and does not throw.
C27_Witness ==
    /\ pc = "done"
    /\ call = [kind |-> "get", event |-> "e1"]
    /\ sets["e1"] = [set |-> TRUE, value |-> [type |-> "undefined", value |-> "undefined"]]
    /\ sets["e2"] = [set |-> TRUE, value |-> [type |-> "string", value |-> "bob"]]
    /\ ret = [kind |-> "return", value |-> [type |-> "undefined", value |-> "undefined"]]

(***************************************************************************)
(* Properties of the context a registration returns.                       *)
(***************************************************************************)
\* the key of the document tree a registration call names
KeyOf(c) == IF c.kind = "paths" THEN c.path ELSE toOpenApiPath(c.path)

\* every method the call names already has an operation in the tree
AllTaken(tree, c) ==
    /\ c.methods # <<>>
    /\ \A m \in Range(c.methods) : lookup(tree, KeyOf(c), m) # Undefined

\* C28: the registry call of every registration returns a RouterContext
\* built from the operation given to that very call, whether or not the call
\* stored the operation for any method: when every method it names is taken
\* already, the document tree stays as it was and the context is still that
\* of the new operation; a direct call hands that context back, and the
\* routes that OpenApiRouter or a route plugin mounts next carry it.
C28_ContextOfGivenOperation ==
    [][/\ StartsRegistration =>
            /\ call'.ctx = [kind |-> "ctx", operation |-> call'.operation]
            /\ call'.kind = "paths" => ret' = [kind |-> "ctx", operation |-> call'.operation]
            /\ AllTaken(paths, call') => paths' = paths
       /\ (pc = "registered" /\ pc' = "done") =>
            /\ Len(Added(call.app)) > 0 \/ call.methods = <<>>
            /\ \A j \in 1..Len(Added(call.app)) :
                   Added(call.app)[j].ctx = [kind |-> "ctx", operation |-> call.operation]]_vars

\* C28 witness: router.get('/:a', opA, ...) and then router.get('/:a', opB,
\* ...): the tree still holds opA for GET '/{a}', and the second mounted
\* route carries the context of opB.
C28_Witness ==
    /\ pc = "done"
    /\ call.kind = "router"
    /\ call.entry = "get"
    /\ call.path = <<"/", ":", "a">>
    /\ call.operation = "opB"
    /\ lookup(paths, <<"/", "{", "a", "}">>, "get") = "opA"
    /\ Len(mounts["app1"]) = 2
    /\ mounts["app1"][1].ctx = [kind |-> "ctx", operation |-> "opA"]
    /\ mounts["app1"][2].ctx = [kind |-> "ctx", operation |-> "opB"]

\* C29: whenever a call of validReply throws, the status and the headers of
\* the event's response are exactly what they were before the call, whether
\* it was the body or the headers that failed validation, and what it throws
\* is the validation error with status 500.
C29_FailureLeavesResponse ==
    [][(pc = "idle" /\ call'.kind = "validReply" /\ ret'.kind = "throw") =>
            /\ event'.res = event.res
            /\ ret'.status = 500
            /\ ret'.message = "Response validation failed"]_vars

\* C29 witness: after reply(200, ..., { x-count: 5 }), validReply(201, ...)
\* with a valid body and the header x-count -1 threw; the response still has
\* status 200 and the header of the earlier reply.
C29_Witness ==
    /\ Called("validReply")
    /\ call.ctx.operation.operationId = "typed"
    /\ call.args.status = 201
    /\ call.args.data = [score |-> num("85")]
    /\ call.args.headers = [k \in {"x-count"} |-> num("-1")]
    /\ ret.kind = "throw"
    /\ event.res = [status |-> 200, headers |-> [k \in {"x-count"} |-> "5"]]

(***************************************************************************)
(* Properties of deferred registration.                                    *)
(***************************************************************************)
\* some app has a route with this handler among the given mounts
MountedIn(ms, handler) ==
    \E app \in Apps : \E i \in 1..Len(ms[app]) : ms[app][i].handler = handler

\* the number of routes a list of Routes mounts
RECURSIVE MountCount(_, _)
MountCount(routes, i) ==
    IF i > Len(routes) THEN 0 ELSE Len(routes[i].methods) + MountCount(routes, i + 1)

====
